---- MODULE Spec2Model ----
(***************************************************************************)
(* A model of the lox_treewalk interpreter: the resolver pass, the         *)
(* environments, the runtime values with their derived equality, and the   *)
(* tree-walking evaluator run as a small-step machine over an explicit     *)
(* stack of handler activations (one frame per Rust call of a visit_ /     *)
(* call / execute_block function).                                         *)
(***************************************************************************)
EXTENDS Integers, Sequences, FiniteSets

VARIABLES
    session,        \* how the process was started and the source texts it is given
    line_no,        \* index of the program of the session being run (0: none yet)
    statements,     \* the statements run() handed to the resolver and interpret()
    envs,           \* the heap of Environment cells (Rc<RefCell<Environment>>)
    instances,      \* the heap of LoxInstance cells (Rc<RefCell<LoxInstance>>)
    environment,    \* Interpreter.environment: index into envs
    locals,         \* Interpreter.locals: HashMap<Token, usize>
    active_break,   \* Interpreter.active_break
    next_rc,        \* number of Rc<LoxFunction> / Rc<LoxClass> allocations so far
    stack,          \* the Rust call stack of handler activations
    res,            \* the Result the handler that just returned hands to its caller
    output,         \* what print statements wrote to stdout
    exit_code,      \* the value the last run() returned (-1: none yet)
    panic,          \* message of the panic that aborted the process ("" if none)
    recorded,       \* history: what resolve_local did for each reference of this run
    event,          \* history: the handler activation that returned in the last step
    parser,         \* the Parser at work on a token sequence
    prompt_loop,    \* "reading" until the loop of run_prompt is left: "returned"
    scanner,        \* the Scanner at work on a source text
    resolver        \* the Resolver of the last run, after resolve_statements

vars == <<session, line_no, statements, envs, instances, environment, locals,
          active_break, next_rc, stack, res, output, exit_code, panic,
          recorded, event, parser, prompt_loop, scanner, resolver>>

(***************************************************************************)
(* Maps (HashMap): functions whose domain is the set of keys present.      *)
(***************************************************************************)
EmptyMap == [j \in {} |-> 0]

Has(m, key) == key \in DOMAIN m

Put(m, key, v) == [j \in (DOMAIN m) \cup {key} |-> IF j = key THEN v ELSE m[j]]

None == [k |-> "none"]

Max(S) == CHOOSE m \in S : \A j \in S : j <= m

(***************************************************************************)
(* Tokens.  col is the position of the occurrence in its line of the text  *)
(* read so far: it tells two occurrences apart, and is no field of Token.  *)
(***************************************************************************)
Tok(type, lexeme, line, col) ==
    [token_type |-> type, lexeme |-> lexeme, line |-> line, col |-> col]

Ident(lexeme, line, col) == Tok("Identifier", lexeme, line, col)

\* impl PartialEq / Hash for Token: the fields that make a HashMap key.
TokenKey(tok) == <<tok.token_type, tok.lexeme, tok.line>>

(***************************************************************************)
(* Expressions and statements.                                             *)
(***************************************************************************)
Literal(value) == [k |-> "literal", value |-> value]
Variable(name) == [k |-> "variable", name |-> name]
Assign(name, value) == [k |-> "assign", name |-> name, value |-> value]
Binary(left, operator, right) ==
    [k |-> "binary", left |-> left, operator |-> operator, right |-> right]
Logical(left, operator, right) ==
    [k |-> "logical", left |-> left, operator |-> operator, right |-> right]
Call(callee, paren, arguments) ==
    [k |-> "call", callee |-> callee, paren |-> paren, arguments |-> arguments]
Closure(params, body) == [k |-> "closure", params |-> params, body |-> body]
Get(object, name) == [k |-> "get", object |-> object, name |-> name]
Set(object, name, value) ==
    [k |-> "set", object |-> object, name |-> name, value |-> value]
This(keyword) == [k |-> "this", keyword |-> keyword]
Super(keyword, method) == [k |-> "super", keyword |-> keyword, method |-> method]

Expression(expression) == [k |-> "expression", expression |-> expression]
PrintStmt(expression) == [k |-> "print", expression |-> expression]
Var(name, initializer) == [k |-> "var", name |-> name, initializer |-> initializer]
Block(stmts) == [k |-> "block", statements |-> stmts]
If(condition, then_branch, else_branch) ==
    [k |-> "if", condition |-> condition, then_branch |-> then_branch,
     else_branch |-> else_branch]
While(condition, body) == [k |-> "while", condition |-> condition, body |-> body]
Break == [k |-> "break"]
Function(name, closure) == [k |-> "function", name |-> name, closure |-> closure]
\* Return::new.  written is not a field of the struct: it keeps what the
\* source text had between the keyword and the semicolon, None for a bare
\* "return;", and nothing of the program reads it.
Return(keyword, value) ==
    [k |-> "return", keyword |-> keyword, value |-> value, written |-> value]
Class(name, superclass, methods) ==
    [k |-> "class", name |-> name, superclass |-> superclass, methods |-> methods]

(***************************************************************************)
(* Runtime values.                                                         *)
(***************************************************************************)
Nil == [t |-> "nil"]
Number(n) == [t |-> "num", v |-> n]
String(s) == [t |-> "str", v |-> s]
Boolean(b) == [t |-> "bool", v |-> b]

\* LoxObject::Instance(Rc<RefCell<LoxInstance>>): rc is the Rc's address.
Instance(rc) == [t |-> "inst", rc |-> rc]

\* LoxFunction::new.  rc is the address of the Rc that holds the function
\* (0 for a LoxFunction held by value in a class's method table).
LoxFunction(declaration, context, name, is_initializer, rc) ==
    [t |-> "fun", declaration |-> declaration, context |-> context,
     arity |-> Len(declaration.params), name |-> name,
     is_initializer |-> is_initializer, rc |-> rc]

\* LoxClass::new
LoxClass(name, superclass, methods, rc) ==
    [t |-> "class", name |-> name, superclass |-> superclass,
     methods |-> methods, rc |-> rc]

\* The global clock function built by Interpreter::new.
NativeClock == [t |-> "native", arity |-> 0, repr |-> "<native fn>"]

\* LoxInstance::new
LoxInstance(klass) == [klass |-> klass, fields |-> EmptyMap]

\* Interpreter::is_truthy
is_truthy(object) ==
    IF object.t = "nil" THEN FALSE
    ELSE IF object.t = "bool" THEN object.v
    ELSE TRUE

(***************************************************************************)
(* Environment: a heap cell [values, enclosing]; enclosing 0 is None.      *)
(***************************************************************************)
Environment(enclosing) == [values |-> EmptyMap, enclosing |-> enclosing]

\* Environment::define on cell e of heap h
define(h, e, name, value) == [h EXCEPT ![e].values = Put(@, name, value)]

\* Environment::ancestor: 0 when an expect() on a missing enclosing panics.
RECURSIVE Walk(_, _, _)
Walk(h, e, distance) ==
    IF distance = 0 THEN e
    ELSE IF h[e].enclosing = 0 THEN 0
    ELSE Walk(h, h[e].enclosing, distance - 1)

ancestor(h, e, distance) == Walk(h, e, distance)

\* The result of a lookup whose expect() panicked or that found no binding.
Missing == [t |-> "missing"]

\* Environment::get_at: Missing when one of its expect() calls panics.
get_at(h, e, distance, name) ==
    LET a == ancestor(h, e, distance) IN
    IF a = 0 THEN Missing
    ELSE IF Has(h[a].values, name) THEN h[a].values[name]
    ELSE Missing

\* Environment::assign_at: the heap after the insert; ok is FALSE when
\* ancestor panics.
assign_at(h, e, distance, name, value) ==
    LET a == ancestor(h, e, distance) IN
    IF a = 0 THEN [ok |-> FALSE, h |-> h]
    ELSE [ok |-> TRUE, h |-> [h EXCEPT ![a].values = Put(@, name.lexeme, value)]]

\* Environment::get: the value, or Missing for Err("Undefined variable").
RECURSIVE get(_, _, _)
get(h, e, name) ==
    IF Has(h[e].values, name.lexeme) THEN h[e].values[name.lexeme]
    ELSE IF h[e].enclosing # 0 THEN get(h, h[e].enclosing, name)
    ELSE Missing

\* A faulty Environment::assign, for comparison: it defines the name in the
\* outermost environment when no environment of the chain binds it.
RECURSIVE assign_or_define(_, _, _, _)
assign_or_define(h, e, name, value) ==
    IF Has(h[e].values, name.lexeme) \/ h[e].enclosing = 0
    THEN [ok |-> TRUE, h |-> [h EXCEPT ![e].values = Put(@, name.lexeme, value)]]
    ELSE assign_or_define(h, h[e].enclosing, name, value)

\* Environment::assign: the heap after the write; ok is FALSE for
\* Err("Undefined variable").
RECURSIVE assign(_, _, _, _)
assign(h, e, name, value) ==
    IF Has(h[e].values, name.lexeme)
    THEN [ok |-> TRUE, h |-> [h EXCEPT ![e].values = Put(@, name.lexeme, value)]]
    ELSE IF h[e].enclosing # 0 THEN assign(h, h[e].enclosing, name, value)
    ELSE [ok |-> FALSE, h |-> h]

(***************************************************************************)
(* Resolver.  rs is the Resolver struct together with the interpreter's    *)
(* locals map it writes through Interpreter::resolve; rs.recorded is the   *)
(* history of what resolve_local did for each reference occurrence (the    *)
(* depth it passed to Interpreter::resolve, or GlobalRef when it found the *)
(* name in no scope).  The loops of the resolver go through their list in  *)
(* order: each step's Resolver (r1) is a value before the next step starts.*)
(***************************************************************************)
GlobalRef == [t |-> "global"]

LocalRef(depth) == [t |-> "local", depth |-> depth]

\* Resolver::new
Resolver_new(interp_locals) ==
    [scopes |-> <<>>, current_function |-> "None", current_class |-> "None",
     had_error |-> FALSE, errors |-> <<>>, locals |-> interp_locals,
     recorded |-> EmptyMap, begun |-> 0, ended |-> 0, unmatched |-> FALSE]

\* Resolver::resolver_error; errors keeps what report() wrote, line and
\* message.
resolver_error(rs, line, message) ==
    [rs EXCEPT !.had_error = TRUE,
               !.errors = Append(@, [line |-> line, message |-> message])]

\* Resolver::begin_scope; begun counts the calls.
begin_scope(rs) == [rs EXCEPT !.scopes = Append(@, EmptyMap), !.begun = @ + 1]

\* Resolver::end_scope; ended counts the calls and unmatched tells that
\* one of them found the stack empty (Vec::pop then does nothing).
end_scope(rs) ==
    [rs EXCEPT !.scopes = SubSeq(@, 1, Len(@) - 1), !.ended = @ + 1,
               !.unmatched = @ \/ rs.scopes = <<>>]

\* get_cur_scope().insert(name, flag)
scope_insert(rs, name, flag) ==
    [rs EXCEPT !.scopes[Len(rs.scopes)] = Put(@, name, flag)]

\* Resolver::declare
declare(name, rs) ==
    IF Len(rs.scopes) = 0 THEN rs
    ELSE LET already_declared == Has(rs.scopes[Len(rs.scopes)], name.lexeme)
             r1 == scope_insert(rs, name.lexeme, FALSE)
         IN IF already_declared
            THEN resolver_error(r1, name.line,
                                "Already a variable with this name in this scope.")
            ELSE r1

\* Resolver::define
Resolver_define(name, rs) ==
    IF Len(rs.scopes) = 0 THEN rs ELSE scope_insert(rs, name.lexeme, TRUE)

\* Interpreter::resolve: self.locals.insert(token, depth)
resolve(m, token, depth) == Put(m, TokenKey(token), depth)

\* Resolver::resolve_local
resolve_local(name, rs) ==
    LET found == {idx \in 1..Len(rs.scopes) : Has(rs.scopes[idx], name.lexeme)} IN
    IF found = {}
    THEN [rs EXCEPT !.recorded = Put(@, name, GlobalRef)]
    ELSE LET depth == Len(rs.scopes) - Max(found) IN
         [rs EXCEPT !.locals = resolve(@, name, depth),
                    !.recorded = Put(@, name, LocalRef(depth))]

RECURSIVE resolve_statements(_, _)
RECURSIVE resolve_stmt(_, _)
RECURSIVE resolve_expr(_, _)
RECURSIVE resolve_exprs(_, _)
RECURSIVE resolve_function(_, _, _)
RECURSIVE resolve_methods(_, _)
RECURSIVE declare_params(_, _)

\* the loop over closure.params in Resolver::resolve_function
declare_params(params, rs) ==
    IF Len(params) = 0 THEN rs
    ELSE declare_params(Tail(params),
                        Resolver_define(Head(params), declare(Head(params), rs)))

\* A faulty Resolver::resolve_function, for comparison: it does not put
\* current_function back.
resolve_function_keeps_type(closure, function_type, rs) ==
    LET r1 == begin_scope([rs EXCEPT !.current_function = function_type])
        r2 == declare_params(closure.params, r1)
    IN end_scope(resolve_statements(closure.body, r2))

\* Resolver::resolve_function
resolve_function(closure, function_type, rs) ==
    LET enclosing_function == rs.current_function
        r1 == begin_scope([rs EXCEPT !.current_function = function_type])
        r2 == declare_params(closure.params, r1)
        r3 == end_scope(resolve_statements(closure.body, r2))
    IN [r3 EXCEPT !.current_function = enclosing_function]

\* Resolver::resolve_statements
resolve_statements(stmts, rs) ==
    IF Len(stmts) = 0 THEN rs
    ELSE LET r1 == resolve_stmt(Head(stmts), rs)
         IN CASE r1.had_error \in BOOLEAN -> resolve_statements(Tail(stmts), r1)

\* the loop over expr.arguments in Resolver::visit_call_expr
resolve_exprs(exprs, rs) ==
    IF Len(exprs) = 0 THEN rs
    ELSE LET r1 == resolve_expr(Head(exprs), rs)
         IN CASE r1.had_error \in BOOLEAN -> resolve_exprs(Tail(exprs), r1)

\* the loop over stmt.methods in Resolver::visit_class_stmt
resolve_methods(methods, rs) ==
    IF Len(methods) = 0 THEN rs
    ELSE LET function == Head(methods)
             declaration == IF function.name.lexeme = "init"
                            THEN "Initializer" ELSE "Method"
             r1 == resolve_function(function.closure, declaration, rs)
         IN CASE r1.had_error \in BOOLEAN -> resolve_methods(Tail(methods), r1)

\* impl ExprVisitor for Resolver
resolve_expr(expr, rs) ==
    CASE expr.k \in {"binary", "logical"} ->
            resolve_expr(expr.right, resolve_expr(expr.left, rs))
      [] expr.k = "literal" -> rs
      [] expr.k = "variable" ->
            LET own_init == /\ Len(rs.scopes) > 0
                            /\ Has(rs.scopes[Len(rs.scopes)], expr.name.lexeme)
                            /\ rs.scopes[Len(rs.scopes)][expr.name.lexeme] = FALSE
                r1 == IF own_init
                      THEN resolver_error(rs, expr.name.line,
                               "Can't read local variable in its own initializer.")
                      ELSE rs
            IN resolve_local(expr.name, r1)
      [] expr.k = "assign" ->
            resolve_local(expr.name, resolve_expr(expr.value, rs))
      [] expr.k = "call" ->
            resolve_exprs(expr.arguments, resolve_expr(expr.callee, rs))
      [] expr.k = "get" -> resolve_expr(expr.object, rs)
      [] expr.k = "set" ->
            resolve_expr(expr.object, resolve_expr(expr.value, rs))
      [] expr.k = "this" ->
            LET r1 == IF rs.current_class = "None"
                      THEN resolver_error(rs, expr.keyword.line,
                                          "Can't use 'this' outside of a class.")
                      ELSE rs
            IN resolve_local(expr.keyword, r1)
      [] expr.k = "super" ->
            IF rs.current_class = "Subclass"
            THEN resolve_local(expr.keyword, rs)
            ELSE resolver_error(rs, expr.keyword.line,
                     IF rs.current_class = "None"
                     THEN "Can't use 'super' outside of a class."
                     ELSE "Can't use 'super' in a class with no superclass.")
      [] expr.k = "closure" -> resolve_function(expr, "Function", rs)

\* impl StmtVisitor for Resolver
resolve_stmt(stmt, rs) ==
    CASE stmt.k \in {"expression", "print"} -> resolve_expr(stmt.expression, rs)
      [] stmt.k = "var" ->
            LET r1 == declare(stmt.name, rs)
                r2 == IF stmt.initializer = None THEN r1
                      ELSE resolve_expr(stmt.initializer, r1)
            IN Resolver_define(stmt.name, r2)
      [] stmt.k = "block" ->
            end_scope(resolve_statements(stmt.statements, begin_scope(rs)))
      [] stmt.k = "if" ->
            LET r1 == resolve_stmt(stmt.then_branch,
                                   resolve_expr(stmt.condition, rs))
            IN IF stmt.else_branch = None THEN r1
               ELSE resolve_stmt(stmt.else_branch, r1)
      [] stmt.k = "while" ->
            resolve_stmt(stmt.body, resolve_expr(stmt.condition, rs))
      [] stmt.k = "break" -> rs
      [] stmt.k = "function" ->
            resolve_function(stmt.closure, "Function",
                             Resolver_define(stmt.name, declare(stmt.name, rs)))
      [] stmt.k = "return" ->
            LET r1 == IF rs.current_function = "None"
                      THEN resolver_error(rs, stmt.keyword.line,
                                          "Can't return from top-level code.")
                      ELSE rs
            IN IF stmt.value = Literal(Nil) THEN r1
               ELSE IF r1.current_function = "Initializer"
               THEN resolver_error(r1, stmt.keyword.line,
                                   "Can't return a value from an initializer.")
               ELSE resolve_expr(stmt.value, r1)
      [] stmt.k = "class" ->
            LET enclosing_class == rs.current_class
                r1 == Resolver_define(stmt.name,
                          declare(stmt.name, [rs EXCEPT !.current_class = "Class"]))
                has_super == stmt.superclass # None
                r2 == IF ~has_super THEN r1
                      ELSE LET e1 == IF stmt.name.lexeme = stmt.superclass.name.lexeme
                                     THEN resolver_error(r1, stmt.superclass.name.line,
                                              "A class can't inherit from itself")
                                     ELSE r1
                               e2 == resolve_expr(stmt.superclass,
                                         [e1 EXCEPT !.current_class = "Subclass"])
                           IN scope_insert(begin_scope(e2), "super", TRUE)
                r3 == scope_insert(begin_scope(r2), "this", TRUE)
                r4 == end_scope(resolve_methods(stmt.methods, r3))
                r5 == IF has_super THEN end_scope(r4) ELSE r4
            IN [r5 EXCEPT !.current_class = enclosing_class]

(***************************************************************************)
(* Equality of runtime values: #[derive(PartialEq)] on LoxObject,          *)
(* LoxLiteral, LoxCallable, LoxFunction, LoxClass and LoxInstance, the     *)
(* hand-written impl PartialEq for Closure, and the structural equality    *)
(* of Rc<T>, RefCell<T>, Option<T> and HashMap<K, V>.                      *)
(***************************************************************************)
\* impl PartialEq for Closure
closure_eq(a, b) == FALSE

\* LoxFunction (derive PartialEq): the fields are compared in declaration
\* order and declaration comes first, so no later field is ever compared.
lox_function_eq(a, b) == closure_eq(a.declaration, b.declaration)

\* HashMap<&str, LoxFunction> equality of two method tables.
methods_eq(a, b) ==
    /\ DOMAIN a = DOMAIN b
    /\ \A name \in DOMAIN a : lox_function_eq(a[name], b[name])

\* LoxClass (derive PartialEq): name, superclass, methods.
RECURSIVE lox_class_eq(_, _)
lox_class_eq(a, b) ==
    /\ a.name = b.name
    /\ IF a.superclass = None \/ b.superclass = None
       THEN a.superclass = None /\ b.superclass = None
       ELSE lox_class_eq(a.superclass, b.superclass)
    /\ methods_eq(a.methods, b.methods)

\* LoxObject (derive PartialEq); insts is the heap of instances.
RECURSIVE lox_object_eq(_, _, _)
lox_object_eq(a, b, insts) ==
    IF a.t # b.t THEN FALSE
    ELSE CASE a.t = "nil" -> TRUE
           [] a.t \in {"num", "str", "bool"} -> a.v = b.v
           [] a.t = "fun" -> lox_function_eq(a, b)
           [] a.t = "class" -> lox_class_eq(a, b)
           [] a.t = "native" -> a.arity = b.arity /\ a.repr = b.repr
           [] a.t = "inst" ->
                LET x == insts[a.rc]
                    y == insts[b.rc]
                IN /\ lox_class_eq(x.klass, y.klass)
                   /\ DOMAIN x.fields = DOMAIN y.fields
                   /\ \A name \in DOMAIN x.fields :
                          lox_object_eq(x.fields[name], y.fields[name], insts)

\* The derived comparison of a and b calls itself without end, if the
\* HashMaps of fields hand out their entries in an order that allows it:
\* it comes back to a pair of instances it is already comparing.  path is
\* the pairs being compared.  HashMap::eq compares the lengths and then
\* the values key by key, in the order of the map's iterator, until one
\* differs.
RECURSIVE eq_diverges(_, _, _, _)
eq_diverges(a, b, insts, path) ==
    /\ a.t = "inst" /\ b.t = "inst"
    /\ \/ <<a.rc, b.rc>> \in path
       \/ LET x == insts[a.rc]
              y == insts[b.rc]
          IN /\ lox_class_eq(x.klass, y.klass)
             /\ Cardinality(DOMAIN x.fields) = Cardinality(DOMAIN y.fields)
             /\ \E name \in DOMAIN x.fields \cap DOMAIN y.fields :
                   eq_diverges(x.fields[name], y.fields[name], insts,
                               path \cup {<<a.rc, b.rc>>})

\* The derived comparison of a and b returns false before it comes back to
\* a pair of path, if the iterators hand out an entry that differs first.
RECURSIVE eq_stops_unequal(_, _, _, _)
eq_stops_unequal(a, b, insts, path) ==
    IF a.t # "inst" \/ b.t # "inst" THEN ~lox_object_eq(a, b, insts)
    ELSE /\ <<a.rc, b.rc>> \notin path
         /\ LET x == insts[a.rc]
                y == insts[b.rc]
            IN \/ ~lox_class_eq(x.klass, y.klass)
               \/ Cardinality(DOMAIN x.fields) # Cardinality(DOMAIN y.fields)
               \/ \E name \in DOMAIN x.fields :
                     \/ name \notin DOMAIN y.fields
                     \/ eq_stops_unequal(x.fields[name], y.fields[name], insts,
                                         path \cup {<<a.rc, b.rc>>})

\* left == right of two LoxObjects: "true", "false", or "overflow" when the
\* comparison calls itself until the stack is used up.  unequal_first tells
\* whether the iterators of the HashMaps hand out an entry that differs
\* before one that leads back, where there are both.
partial_eq(left, right, insts, unequal_first) ==
    IF ~eq_diverges(left, right, insts, {})
    THEN IF lox_object_eq(left, right, insts) THEN "true" ELSE "false"
    ELSE IF unequal_first /\ eq_stops_unequal(left, right, insts, {}) THEN "false"
    ELSE "overflow"

\* LoxClass::find_method: the method, or Missing for Option::None.
RECURSIVE find_method(_, _)
find_method(class, name) ==
    IF Has(class.methods, name) THEN class.methods[name]
    ELSE IF class.superclass # None THEN find_method(class.superclass, name)
    ELSE Missing

\* LoxClass::arity that looks for init in the class's own methods only.
class_arity_own(class) ==
    IF Has(class.methods, "init") THEN class.methods["init"].arity ELSE 0

\* LoxClass::arity
class_arity(class) ==
    LET initializer == find_method(class, "init") IN
    IF initializer = Missing THEN 0 ELSE initializer.arity

(***************************************************************************)
(* The interpreter as a machine.  c is the interpreter state a handler     *)
(* reads and writes; a frame of c.stack is one activation of a handler:    *)
(*   k     the handler,                                                    *)
(*   n     the node it visits (the callee for a call, the statement list   *)
(*         for interpret and execute_block),                               *)
(*   pc    how far the activation has got,                                 *)
(*   vals  the values it holds in local variables,                         *)
(*   env   execute_block's parameter environment,                          *)
(*   prev  execute_block's local previous_env,                             *)
(*   entry history: Interpreter.environment when the activation began,     *)
(*   snap  history: the bindings of that environment at that moment (kept  *)
(*         for block statements only).                                     *)
(***************************************************************************)
globals == 1

NoRes == [s |-> "none", x |-> "", v |-> Nil, msg |-> ""]
Ok(value) == [s |-> "ok", x |-> "", v |-> value, msg |-> ""]
\* LoxException::RuntimeError(RuntimeError::new(line, message))
RuntimeError(message) == [s |-> "err", x |-> "RuntimeError", v |-> Nil, msg |-> message]
\* LoxException::Return(value)
ReturnSignal(value) == [s |-> "err", x |-> "Return", v |-> value, msg |-> ""]

NoEvent == [k |-> "none"]

Cur ==
    [stack |-> stack, res |-> res, event |-> NoEvent, envs |-> envs,
     instances |-> instances, environment |-> environment, locals |-> locals,
     active_break |-> active_break, next_rc |-> next_rc, output |-> output,
     panic |-> panic, exit_code |-> exit_code, recorded |-> recorded,
     resolver |-> resolver]

Top(c) == c.stack[Len(c.stack)]

NewFrame(c, kind, node) ==
    [k |-> kind, n |-> node, pc |-> 0, vals |-> <<>>, env |-> 0, prev |-> 0,
     entry |-> c.environment,
     snap |-> IF kind = "block" THEN c.envs[c.environment].values ELSE EmptyMap]

\* The top activation returns r to its caller.
Ret(c, r) ==
    [c EXCEPT !.stack = SubSeq(@, 1, Len(@) - 1),
              !.res = r,
              !.event = [k |-> Top(c).k, frame |-> Top(c), res |-> r]]

\* The top activation, now f, calls the handler whose activation is child.
Go(c, f, child) ==
    [c EXCEPT !.stack = Append([@ EXCEPT ![Len(@)] = f], child),
              !.res = NoRes]

\* self.evaluate(node) / self.execute(node): dispatch on the node's variant.
Visit(c, f, node) == Go(c, f, NewFrame(c, node.k, node))

\* A panic aborts the process where it stands.
Panicked(c, message) == [c EXCEPT !.panic = message]

\* Environment::new in a fresh Rc<RefCell<_>>: the heap with the new cell last.
new_environment(h, enclosing) == Append(h, Environment(enclosing))

\* LoxFunction::bind: the bound function and the heap with its environment.
bind(h, method, instance, rc) ==
    LET h1 == new_environment(h, method.context)
        e == Len(h1)
    IN [h |-> define(h1, e, "this", instance),
        fn |-> LoxFunction(method.declaration, e, method.name,
                           method.is_initializer, rc)]

\* Interpreter::look_up_variable
look_up_variable(c, name) ==
    IF Has(c.locals, TokenKey(name))
    THEN LET v == get_at(c.envs, c.environment, c.locals[TokenKey(name)],
                         name.lexeme)
         IN IF v = Missing THEN Panicked(c, "get_at") ELSE Ret(c, Ok(v))
    ELSE LET v == get(c.envs, globals, name)
         IN IF v = Missing THEN Ret(c, RuntimeError("Undefined variable"))
            ELSE Ret(c, Ok(v))

\* Interpreter::visit_literal_expr
visit_literal_expr(c) == Ret(c, Ok(Top(c).n.value))

\* Interpreter::visit_variable_expr
visit_variable_expr(c) == look_up_variable(c, Top(c).n.name)

\* Interpreter::visit_this_expr
visit_this_expr(c) == look_up_variable(c, Top(c).n.keyword)

\* Interpreter::visit_assign_expr
visit_assign_expr(c) ==
    LET f == Top(c)
        key == TokenKey(f.n.name)
    IN IF f.pc = 0 THEN Visit(c, [f EXCEPT !.pc = 1], f.n.value)
       ELSE IF c.res.s = "err" THEN Ret(c, c.res)
       ELSE IF Has(c.locals, key)
       THEN LET a == assign_at(c.envs, c.environment, c.locals[key], f.n.name,
                               c.res.v)
            IN IF a.ok THEN Ret([c EXCEPT !.envs = a.h], Ok(c.res.v))
               ELSE Panicked(c, "ancestor")
       ELSE LET a == assign(c.envs, globals, f.n.name, c.res.v)
            IN IF a.ok THEN Ret([c EXCEPT !.envs = a.h], Ok(c.res.v))
               ELSE Ret(c, RuntimeError("Undefined variable"))

\* The match on expr.operator.token_type in Interpreter::visit_binary_expr,
\* for the operators the programs of this model use (Plus on numbers only).
binary_result(operator, left, right, equal) ==
    CASE operator = "Plus" /\ left.t = "num" /\ right.t = "num" ->
            Ok(Number(left.v + right.v))
      [] operator = "Plus" /\ left.t # "str" /\ right.t # "str"
                           /\ ~(left.t = "num" /\ right.t = "num") ->
            RuntimeError("Operands must be two numbers or one must be a string.")
      [] operator = "Less" ->
            IF left.t = "num" /\ right.t = "num"
            THEN Ok(Boolean(left.v < right.v))
            ELSE RuntimeError("Operands must be numbers.")
      [] operator = "BangEqual" -> Ok(Boolean(equal # "true"))
      [] operator = "EqualEqual" -> Ok(Boolean(equal = "true"))

\* Interpreter::visit_binary_expr; unequal_first is the order in which the
\* HashMaps of fields hand out their entries to == and !=.
visit_binary_expr(c, unequal_first) ==
    LET f == Top(c) IN
    IF f.pc = 0 THEN Visit(c, [f EXCEPT !.pc = 1], f.n.left)
    ELSE IF c.res.s = "err" THEN Ret(c, c.res)
    ELSE IF f.pc = 1
    THEN Visit(c, [f EXCEPT !.pc = 2, !.vals = <<c.res.v>>], f.n.right)
    ELSE LET done == [f EXCEPT !.vals = <<f.vals[1], c.res.v>>]
             equal == IF f.n.operator \in {"EqualEqual", "BangEqual"}
                      THEN partial_eq(f.vals[1], c.res.v, c.instances, unequal_first)
                      ELSE "false"
         IN IF equal = "overflow" THEN Panicked(c, "stack overflow")
            ELSE Ret([c EXCEPT !.stack[Len(c.stack)] = done],
                     binary_result(f.n.operator, f.vals[1], c.res.v, equal))

\* A faulty visit_logical_expr, for comparison: it evaluates the right
\* operand whatever the left one is.
visit_logical_expr_eager(c) ==
    LET f == Top(c) IN
    IF f.pc = 0 THEN Visit(c, [f EXCEPT !.pc = 1], f.n.left)
    ELSE IF f.pc = 2 \/ c.res.s = "err" THEN Ret(c, c.res)
    ELSE Visit(c, [f EXCEPT !.pc = 2, !.vals = <<c.res.v>>], f.n.right)

\* Interpreter::visit_logical_expr; the frame keeps the local `left`.
visit_logical_expr(c) ==
    LET f == Top(c)
        left == c.res.v
        held == [c EXCEPT !.stack[Len(c.stack)] = [f EXCEPT !.vals = <<left>>]]
    IN
    IF f.pc = 0 THEN Visit(c, [f EXCEPT !.pc = 1], f.n.left)
    ELSE IF f.pc = 2 \/ c.res.s = "err" THEN Ret(c, c.res)
    ELSE IF f.n.operator = "Or" /\ is_truthy(left) THEN Ret(held, Ok(left))
    ELSE IF f.n.operator = "And" /\ ~is_truthy(left) THEN Ret(held, Ok(left))
    ELSE Visit(c, [f EXCEPT !.pc = 2, !.vals = <<left>>], f.n.right)

\* callable.arity() of LoxCallable
callable_arity(callee) ==
    IF callee.t = "class" THEN class_arity(callee) ELSE callee.arity

\* format!("Expected {} arguments but got {}.", callable.arity(),
\* arguments.len()) in a RuntimeError: N and M are the two numbers.
ArityError(arity, len) ==
    [s |-> "err", x |-> "RuntimeError", v |-> Nil,
     msg |-> "Expected N arguments but got M.", N |-> arity, M |-> len]

\* A faulty visit_call_expr, for comparison: it checks that the callee is
\* callable before it evaluates the arguments.
visit_call_expr_check_first(c, now) ==
    LET f == Top(c) IN
    IF f.pc = 0 THEN Visit(c, [f EXCEPT !.pc = 1], f.n.callee)
    ELSE IF f.pc = 2 \/ c.res.s = "err" THEN Ret(c, c.res)
    ELSE LET held == Append(f.vals, c.res.v)
             callee == held[1]
             arguments == Tail(held)
             f1 == [f EXCEPT !.vals = held]
         IN IF callee.t \notin {"fun", "class", "native"}
            THEN Ret(c, RuntimeError("Can only call functions and classes."))
            ELSE IF Len(arguments) < Len(f.n.arguments)
            THEN Visit(c, f1, f.n.arguments[Len(arguments) + 1])
            ELSE IF Len(arguments) # callable_arity(callee)
            THEN Ret(c, ArityError(callable_arity(callee), Len(arguments)))
            ELSE IF callee.t = "native" THEN Ret(c, Ok(Number(now)))
            ELSE LET call == NewFrame(c, IF callee.t = "fun" THEN "LoxFunction_call"
                                         ELSE "LoxClass_call", callee)
                 IN Go(c, [f1 EXCEPT !.pc = 2], [call EXCEPT !.vals = arguments])

\* Interpreter::visit_call_expr; now is what SystemTime::now() reads when the
\* callee is the native clock.
visit_call_expr(c, now) ==
    LET f == Top(c) IN
    IF f.pc = 0 THEN Visit(c, [f EXCEPT !.pc = 1], f.n.callee)
    ELSE IF f.pc = 2 \/ c.res.s = "err" THEN Ret(c, c.res)
    ELSE LET held == Append(f.vals, c.res.v)
             callee == held[1]
             arguments == Tail(held)
             f1 == [f EXCEPT !.vals = held]
         IN IF Len(arguments) < Len(f.n.arguments)
            THEN Visit(c, f1, f.n.arguments[Len(arguments) + 1])
            ELSE IF callee.t \notin {"fun", "class", "native"}
            THEN Ret(c, RuntimeError("Can only call functions and classes."))
            ELSE IF Len(arguments) # callable_arity(callee)
            THEN Ret(c, ArityError(callable_arity(callee), Len(arguments)))
            ELSE IF callee.t = "native" THEN Ret(c, Ok(Number(now)))
            ELSE LET call == NewFrame(c, IF callee.t = "fun" THEN "LoxFunction_call"
                                         ELSE "LoxClass_call", callee)
                 IN Go(c, [f1 EXCEPT !.pc = 2], [call EXCEPT !.vals = arguments])

\* the loop over arguments in LoxFunction::call
RECURSIVE define_params(_, _, _, _)
define_params(h, e, params, arguments) ==
    IF Len(arguments) = 0 THEN h
    ELSE define_params(define(h, e, Head(params).lexeme, Head(arguments)), e,
                       Tail(params), Tail(arguments))

\* A faulty LoxFunction::call, for comparison: it passes a Return signal on
\* to its caller as it does a runtime error.
LoxFunction_call_passes_return(c) ==
    LET f == Top(c)
        fn == f.n
    IN IF f.pc = 0
       THEN LET h1 == new_environment(c.envs, fn.context)
                e == Len(h1)
                h2 == define_params(h1, e, fn.declaration.params, f.vals)
                block == NewFrame(c, "execute_block", fn.declaration.body)
            IN Go([c EXCEPT !.envs = h2], [f EXCEPT !.pc = 1],
                  [block EXCEPT !.env = e])
       ELSE IF c.res.s = "err" THEN Ret(c, c.res)
       ELSE IF fn.is_initializer
       THEN LET this == get_at(c.envs, fn.context, 0, "this")
            IN IF this = Missing THEN Panicked(c, "get_at") ELSE Ret(c, Ok(this))
       ELSE Ret(c, Ok(Nil))

\* A faulty LoxFunction::call, for comparison: it treats an initializer as
\* any other function.
LoxFunction_call_plain(c) ==
    LET f == Top(c)
        fn == f.n
    IN IF f.pc = 0
       THEN LET h1 == new_environment(c.envs, fn.context)
                e == Len(h1)
                h2 == define_params(h1, e, fn.declaration.params, f.vals)
                block == NewFrame(c, "execute_block", fn.declaration.body)
            IN Go([c EXCEPT !.envs = h2], [f EXCEPT !.pc = 1],
                  [block EXCEPT !.env = e])
       ELSE IF c.res.s = "err" /\ c.res.x = "RuntimeError" THEN Ret(c, c.res)
       ELSE IF c.res.s = "err" THEN Ret(c, Ok(c.res.v))
       ELSE Ret(c, Ok(Nil))

\* LoxFunction::call
LoxFunction_call(c) ==
    LET f == Top(c)
        fn == f.n
    IN IF f.pc = 0
       THEN LET h1 == new_environment(c.envs, fn.context)
                e == Len(h1)
                h2 == define_params(h1, e, fn.declaration.params, f.vals)
                block == NewFrame(c, "execute_block", fn.declaration.body)
            IN Go([c EXCEPT !.envs = h2], [f EXCEPT !.pc = 1],
                  [block EXCEPT !.env = e])
       ELSE IF c.res.s = "err" /\ c.res.x = "RuntimeError" THEN Ret(c, c.res)
       ELSE IF fn.is_initializer
       THEN LET this == get_at(c.envs, fn.context, 0, "this")
            IN IF this = Missing THEN Panicked(c, "get_at") ELSE Ret(c, Ok(this))
       ELSE IF c.res.s = "err" THEN Ret(c, Ok(c.res.v))
       ELSE Ret(c, Ok(Nil))

\* LoxClass::call
LoxClass_call(c) ==
    LET f == Top(c)
        class == f.n
    IN IF f.pc = 0
       THEN LET insts == Append(c.instances, LoxInstance(class))
                instance == Instance(Len(insts))
                initializer == find_method(class, "init")
                c1 == [c EXCEPT !.instances = insts]
            IN IF initializer = Missing THEN Ret(c1, Ok(instance))
               ELSE LET b == bind(c.envs, initializer, instance, 0)
                        call == NewFrame(c, "LoxFunction_call", b.fn)
                    IN Go([c1 EXCEPT !.envs = b.h],
                          [f EXCEPT !.pc = 1, !.vals = <<instance>>],
                          [call EXCEPT !.vals = f.vals])
       ELSE IF c.res.s = "err" THEN Ret(c, c.res)
       ELSE Ret(c, Ok(f.vals[1]))

\* LoxInstance::get, with the Rc::new that wraps the bound method
instance_get(c, instance, name) ==
    LET cell == c.instances[instance.rc] IN
    IF Has(cell.fields, name.lexeme) THEN Ret(c, Ok(cell.fields[name.lexeme]))
    ELSE LET method == find_method(cell.klass, name.lexeme) IN
         IF method = Missing THEN Ret(c, RuntimeError("Undefined property"))
         ELSE LET b == bind(c.envs, method, instance, c.next_rc + 1)
              IN Ret([c EXCEPT !.envs = b.h, !.next_rc = @ + 1], Ok(b.fn))

\* Interpreter::visit_get_expr
visit_get_expr(c) ==
    LET f == Top(c) IN
    IF f.pc = 0 THEN Visit(c, [f EXCEPT !.pc = 1], f.n.object)
    ELSE IF c.res.s = "err" THEN Ret(c, c.res)
    ELSE IF c.res.v.t = "inst" THEN instance_get(c, c.res.v, f.n.name)
    ELSE Ret(c, RuntimeError("Only instances have properties."))

\* A faulty visit_set_expr, for comparison: it sets the field on a copy of
\* the instance, as a LoxObject that held the instance by value would.
visit_set_expr_on_copy(c) ==
    LET f == Top(c) IN
    IF f.pc = 0 THEN Visit(c, [f EXCEPT !.pc = 1], f.n.object)
    ELSE IF c.res.s = "err" THEN Ret(c, c.res)
    ELSE IF f.pc = 1
    THEN IF c.res.v.t = "inst"
         THEN Visit(c, [f EXCEPT !.pc = 2, !.vals = <<c.res.v>>], f.n.value)
         ELSE Ret(c, RuntimeError("Only instances have fields."))
    ELSE LET cell == c.instances[f.vals[1].rc]
             copy == [cell EXCEPT !.fields = Put(@, f.n.name.lexeme, c.res.v)]
         IN Ret([c EXCEPT !.instances = Append(@, copy)], Ok(c.res.v))

\* Interpreter::visit_set_expr with LoxInstance::set
visit_set_expr(c) ==
    LET f == Top(c) IN
    IF f.pc = 0 THEN Visit(c, [f EXCEPT !.pc = 1], f.n.object)
    ELSE IF c.res.s = "err" THEN Ret(c, c.res)
    ELSE IF f.pc = 1
    THEN IF c.res.v.t = "inst"
         THEN Visit(c, [f EXCEPT !.pc = 2, !.vals = <<c.res.v>>], f.n.value)
         ELSE Ret(c, RuntimeError("Only instances have fields."))
    ELSE Ret([c EXCEPT !.instances[f.vals[1].rc].fields =
                           Put(@, f.n.name.lexeme, c.res.v)],
             Ok(c.res.v))

\* Interpreter::visit_super_expr
visit_super_expr(c) ==
    LET f == Top(c)
        key == TokenKey(f.n.keyword)
    IN IF ~Has(c.locals, key) THEN Panicked(c, "Expected super local to resolve.")
       ELSE LET distance == c.locals[key]
                superclass == get_at(c.envs, c.environment, distance, "super")
                object == IF distance = 0 THEN Missing
                          ELSE get_at(c.envs, c.environment, distance - 1, "this")
            IN IF superclass = Missing \/ object = Missing
               THEN Panicked(c, "get_at")
               ELSE IF object.t # "inst" \/ superclass.t # "class"
               THEN Panicked(c, "unreachable")
               ELSE LET method == find_method(superclass, f.n.method.lexeme) IN
                    IF method = Missing
                    THEN Ret(c, RuntimeError("Undefined property"))
                    ELSE LET b == bind(c.envs, method, object, c.next_rc + 1)
                         IN Ret([c EXCEPT !.envs = b.h, !.next_rc = @ + 1],
                                Ok(b.fn))

\* Interpreter::visit_closure_expr
visit_closure_expr(c) ==
    Ret([c EXCEPT !.next_rc = @ + 1],
        Ok(LoxFunction(Top(c).n, c.environment, "", FALSE, c.next_rc + 1)))

\* A faulty execute_block, for comparison: the Err arm of its match returns
\* without `self.environment = previous_env`.
execute_block_no_restore(c) ==
    LET f == Top(c) IN
    IF f.pc = 0
    THEN [c EXCEPT !.stack[Len(c.stack)] = [f EXCEPT !.pc = 1, !.prev = c.environment],
                   !.environment = f.env]
    ELSE IF c.res.s = "err" THEN Ret(c, c.res)
    ELSE IF f.pc > Len(f.n) \/ c.active_break
    THEN Ret([c EXCEPT !.environment = f.prev], Ok(Nil))
    ELSE Visit(c, [f EXCEPT !.pc = @ + 1], f.n[f.pc])

\* Interpreter::execute_block
execute_block(c) ==
    LET f == Top(c) IN
    IF f.pc = 0
    THEN [c EXCEPT !.stack[Len(c.stack)] = [f EXCEPT !.pc = 1, !.prev = c.environment],
                   !.environment = f.env]
    ELSE IF c.res.s = "err" THEN Ret([c EXCEPT !.environment = f.prev], c.res)
    ELSE IF f.pc > Len(f.n) \/ c.active_break
    THEN Ret([c EXCEPT !.environment = f.prev], Ok(Nil))
    ELSE Visit(c, [f EXCEPT !.pc = @ + 1], f.n[f.pc])

\* Interpreter::interpret
interpret(c) ==
    LET f == Top(c) IN
    IF c.res.s = "err" THEN Ret(c, c.res)
    ELSE IF f.pc >= Len(f.n) THEN Ret(c, Ok(Nil))
    ELSE Visit(c, [f EXCEPT !.pc = @ + 1], f.n[f.pc + 1])

\* Interpreter::visit_expression_stmt
visit_expression_stmt(c) ==
    LET f == Top(c) IN
    IF f.pc = 0 THEN Visit(c, [f EXCEPT !.pc = 1], f.n.expression)
    ELSE IF c.res.s = "err" THEN Ret(c, c.res)
    ELSE Ret(c, Ok(Nil))

\* Interpreter::visit_print_stmt; output keeps the value printed.
visit_print_stmt(c) ==
    LET f == Top(c) IN
    IF f.pc = 0 THEN Visit(c, [f EXCEPT !.pc = 1], f.n.expression)
    ELSE IF c.res.s = "err" THEN Ret(c, c.res)
    ELSE Ret([c EXCEPT !.output = Append(@, c.res.v)], Ok(Nil))

\* A faulty visit_var_stmt, for comparison: it defines the variable in the
\* environment that encloses the current one.
visit_var_stmt_in_enclosing(c) ==
    LET f == Top(c)
        target == IF c.envs[c.environment].enclosing = 0 THEN c.environment
                  ELSE c.envs[c.environment].enclosing
    IN
    IF f.pc = 0 /\ f.n.initializer # None
    THEN Visit(c, [f EXCEPT !.pc = 1], f.n.initializer)
    ELSE IF c.res.s = "err" THEN Ret(c, c.res)
    ELSE LET value == IF f.pc = 0 THEN Nil ELSE c.res.v
         IN Ret([c EXCEPT !.envs = define(@, target, f.n.name.lexeme, value)],
                Ok(Nil))

\* Interpreter::visit_var_stmt
visit_var_stmt(c) ==
    LET f == Top(c) IN
    IF f.pc = 0 /\ f.n.initializer # None
    THEN Visit(c, [f EXCEPT !.pc = 1], f.n.initializer)
    ELSE IF c.res.s = "err" THEN Ret(c, c.res)
    ELSE LET value == IF f.pc = 0 THEN Nil ELSE c.res.v
         IN Ret([c EXCEPT !.envs = define(@, c.environment, f.n.name.lexeme, value)],
                Ok(Nil))

\* Interpreter::visit_block_stmt
visit_block_stmt(c) ==
    LET f == Top(c) IN
    IF f.pc = 0
    THEN LET h1 == new_environment(c.envs, c.environment)
             block == NewFrame(c, "execute_block", f.n.statements)
         IN Go([c EXCEPT !.envs = h1], [f EXCEPT !.pc = 1],
               [block EXCEPT !.env = Len(h1)])
    ELSE Ret(c, c.res)

\* Interpreter::visit_if_stmt
visit_if_stmt(c) ==
    LET f == Top(c) IN
    IF f.pc = 0 THEN Visit(c, [f EXCEPT !.pc = 1], f.n.condition)
    ELSE IF f.pc = 2 \/ c.res.s = "err" THEN Ret(c, c.res)
    ELSE IF is_truthy(c.res.v) THEN Visit(c, [f EXCEPT !.pc = 2], f.n.then_branch)
    ELSE IF f.n.else_branch # None
    THEN Visit(c, [f EXCEPT !.pc = 2], f.n.else_branch)
    ELSE Ret(c, Ok(Nil))

\* Interpreter::visit_while_stmt
visit_while_stmt(c) ==
    LET f == Top(c)
        leave == Ret([c EXCEPT !.active_break = FALSE], Ok(Nil))
    IN IF f.pc = 0 THEN Visit(c, [f EXCEPT !.pc = 1], f.n.condition)
       ELSE IF c.res.s = "err" THEN Ret(c, c.res)
       ELSE IF f.pc = 1
       THEN IF is_truthy(c.res.v) THEN Visit(c, [f EXCEPT !.pc = 2], f.n.body)
            ELSE leave
       ELSE IF c.active_break THEN leave
       ELSE Visit(c, [f EXCEPT !.pc = 1], f.n.condition)

\* Interpreter::visit_break_stmt
visit_break_stmt(c) == Ret([c EXCEPT !.active_break = TRUE], Ok(Nil))

\* Interpreter::visit_function_stmt
visit_function_stmt(c) ==
    LET stmt == Top(c).n
        function == LoxFunction(stmt.closure, c.environment, stmt.name.lexeme,
                                FALSE, c.next_rc + 1)
    IN Ret([c EXCEPT !.envs = define(@, c.environment, stmt.name.lexeme, function),
                     !.next_rc = @ + 1],
           Ok(Nil))

\* Interpreter::visit_return_stmt
visit_return_stmt(c) ==
    LET f == Top(c) IN
    IF f.pc = 0 THEN Visit(c, [f EXCEPT !.pc = 1], f.n.value)
    ELSE IF c.res.s = "err" THEN Ret(c, c.res)
    ELSE Ret(c, ReturnSignal(c.res.v))

\* the loop over stmt.methods in Interpreter::visit_class_stmt: a later
\* method of the same name replaces an earlier one (HashMap::insert).
method_table(methods, context) ==
    [name \in {methods[i].name.lexeme : i \in DOMAIN methods} |->
        LET last == Max({i \in DOMAIN methods : methods[i].name.lexeme = name})
        IN LoxFunction(methods[last].closure, context, name, name = "init", 0)]

\* Interpreter::visit_class_stmt from the definition of the class name on;
\* superclass is None or the class the superclass expression evaluated to.
declare_class(c, superclass) ==
    LET stmt == Top(c).n
        class_name == stmt.name.lexeme
        outer == c.environment
        h1 == define(c.envs, outer, class_name, Nil)
        h2 == IF superclass = None THEN h1
              ELSE define(new_environment(h1, outer), Len(h1) + 1, "super", superclass)
        inner == IF superclass = None THEN outer ELSE Len(h2)
        methods == method_table(stmt.methods, inner)
        \* self.environment.borrow_mut().enclosing.take().unwrap()
        h3 == IF superclass = None THEN h2 ELSE [h2 EXCEPT ![inner].enclosing = 0]
        klass == LoxClass(class_name, superclass, methods, c.next_rc + 1)
        a == assign(h3, outer, stmt.name, klass)
    IN IF a.ok
       THEN Ret([c EXCEPT !.envs = a.h, !.next_rc = @ + 1, !.environment = outer],
                Ok(Nil))
       ELSE Ret([c EXCEPT !.envs = h3, !.environment = outer],
                RuntimeError("Undefined variable"))

\* Interpreter::visit_class_stmt
visit_class_stmt(c) ==
    LET f == Top(c) IN
    IF f.pc = 0
    THEN IF f.n.superclass = None THEN declare_class(c, None)
         ELSE Visit(c, [f EXCEPT !.pc = 1], f.n.superclass)
    ELSE IF c.res.s = "err" THEN Ret(c, c.res)
    ELSE IF c.res.v.t = "class" THEN declare_class(c, c.res.v)
    ELSE Ret(c, RuntimeError("Superclass must be a class."))

\* A faulty run, for comparison: it looks at parse_result only and runs a
\* program whose scanner reported an error.
run_ignores_scanner(c) ==
    LET f == Top(c)
        stmts == f.n
    IN
    IF f.pc = 0
    THEN IF f.vals[1] = "parse_result.is_err"
         THEN Ret([c EXCEPT !.exit_code = 65], Ok(Nil))
         ELSE LET rs == resolve_statements(stmts, Resolver_new(c.locals))
                  c1 == [c EXCEPT !.locals = rs.locals, !.recorded = rs.recorded,
                                  !.resolver = rs]
              IN IF rs.had_error THEN Ret([c1 EXCEPT !.exit_code = 65], Ok(Nil))
                 ELSE Go(c1, [f EXCEPT !.pc = 1], NewFrame(c1, "interpret", stmts))
    ELSE IF c.res.s = "err" THEN Ret([c EXCEPT !.exit_code = 70], Ok(Nil))
    ELSE Ret([c EXCEPT !.exit_code = 0], Ok(Nil))

\* run (main.rs).  The activation holds what the scanner and the parser
\* made of the source text: "scanner.had_error", "parse_result.is_err" or
\* "none", and the statements the parser collected, which parse_result
\* carries only when it is Ok.
run(c) ==
    LET f == Top(c)
        stmts == f.n
    IN
    IF f.pc = 0
    THEN IF f.vals[1] # "none"
         THEN Ret([c EXCEPT !.exit_code = 65], Ok(Nil))
         ELSE LET rs == resolve_statements(stmts, Resolver_new(c.locals))
                  c1 == [c EXCEPT !.locals = rs.locals, !.recorded = rs.recorded,
                                  !.resolver = rs]
              IN IF rs.had_error THEN Ret([c1 EXCEPT !.exit_code = 65], Ok(Nil))
                 ELSE Go(c1, [f EXCEPT !.pc = 1], NewFrame(c1, "interpret", stmts))
    ELSE IF c.res.s = "err" THEN Ret([c EXCEPT !.exit_code = 70], Ok(Nil))
    ELSE Ret([c EXCEPT !.exit_code = 0], Ok(Nil))

(***************************************************************************)
(* The machine: one action per handler.  An action runs the handler on top *)
(* of the stack up to its next call or to its return.                      *)
(***************************************************************************)
Apply(nx) ==
    /\ stack' = nx.stack
    /\ res' = nx.res
    /\ event' = nx.event
    /\ envs' = nx.envs
    /\ instances' = nx.instances
    /\ environment' = nx.environment
    /\ locals' = nx.locals
    /\ active_break' = nx.active_break
    /\ next_rc' = nx.next_rc
    /\ output' = nx.output
    /\ panic' = nx.panic
    /\ exit_code' = nx.exit_code
    /\ recorded' = nx.recorded
    /\ resolver' = nx.resolver

Running(kind) == panic = "" /\ stack # <<>> /\ Top(Cur).k = kind

Input == <<session, line_no, statements, parser, prompt_loop, scanner>>

\* What SystemTime::now() may read, in seconds.
Clock == {0, 1}

LiteralExpr == Running("literal") /\ Apply(visit_literal_expr(Cur)) /\ UNCHANGED Input
VariableExpr == Running("variable") /\ Apply(visit_variable_expr(Cur)) /\ UNCHANGED Input
AssignExpr == Running("assign") /\ Apply(visit_assign_expr(Cur)) /\ UNCHANGED Input
BinaryExpr ==
    /\ Running("binary")
    /\ \E unequal_first \in BOOLEAN : Apply(visit_binary_expr(Cur, unequal_first))
    /\ UNCHANGED Input
LogicalExpr == Running("logical") /\ Apply(visit_logical_expr(Cur)) /\ UNCHANGED Input
CallExpr ==
    \E now \in Clock :
        Running("call") /\ Apply(visit_call_expr(Cur, now)) /\ UNCHANGED Input
GetExpr == Running("get") /\ Apply(visit_get_expr(Cur)) /\ UNCHANGED Input
SetExpr == Running("set") /\ Apply(visit_set_expr(Cur)) /\ UNCHANGED Input
ThisExpr == Running("this") /\ Apply(visit_this_expr(Cur)) /\ UNCHANGED Input
SuperExpr == Running("super") /\ Apply(visit_super_expr(Cur)) /\ UNCHANGED Input
ClosureExpr == Running("closure") /\ Apply(visit_closure_expr(Cur)) /\ UNCHANGED Input
FunctionCall ==
    Running("LoxFunction_call") /\ Apply(LoxFunction_call(Cur)) /\ UNCHANGED Input
ClassCall == Running("LoxClass_call") /\ Apply(LoxClass_call(Cur)) /\ UNCHANGED Input
ExecuteBlock == Running("execute_block") /\ Apply(execute_block(Cur)) /\ UNCHANGED Input
ExpressionStmt ==
    Running("expression") /\ Apply(visit_expression_stmt(Cur)) /\ UNCHANGED Input
PrintStatement == Running("print") /\ Apply(visit_print_stmt(Cur)) /\ UNCHANGED Input
VarStmt == Running("var") /\ Apply(visit_var_stmt(Cur)) /\ UNCHANGED Input
BlockStmt == Running("block") /\ Apply(visit_block_stmt(Cur)) /\ UNCHANGED Input
IfStmt == Running("if") /\ Apply(visit_if_stmt(Cur)) /\ UNCHANGED Input
WhileStmt == Running("while") /\ Apply(visit_while_stmt(Cur)) /\ UNCHANGED Input
BreakStmt == Running("break") /\ Apply(visit_break_stmt(Cur)) /\ UNCHANGED Input
FunctionStmt == Running("function") /\ Apply(visit_function_stmt(Cur)) /\ UNCHANGED Input
ReturnStmt == Running("return") /\ Apply(visit_return_stmt(Cur)) /\ UNCHANGED Input
ClassStmt == Running("class") /\ Apply(visit_class_stmt(Cur)) /\ UNCHANGED Input
Interpret == Running("interpret") /\ Apply(interpret(Cur)) /\ UNCHANGED Input
Run == Running("run") /\ Apply(run(Cur)) /\ UNCHANGED Input

\* The call of run() in run_file and in the loop of run_prompt.
call_run(source, fault) ==
    /\ line_no' = IF line_no < Len(session.lines) THEN line_no + 1 ELSE line_no
    /\ statements' = source
    /\ Apply([Cur EXCEPT !.stack = <<[NewFrame(Cur, "run", source)
                                        EXCEPT !.vals = <<fault>>]>>,
                         !.res = NoRes])
    /\ UNCHANGED <<session, parser, prompt_loop, scanner>>

\* run_file: the one source text, on a new interpreter.
RunFile ==
    /\ session.mode = "file"
    /\ panic = "" /\ stack = <<>> /\ line_no = 0
    /\ call_run(session.lines[1], session.faults[1])

\* What io::stdin().read_line returns for the read after line_no lines:
\* the number of bytes of the line, 0 at the end of input, -1 for Err.
read_line ==
    IF line_no < Len(session.lines) THEN session.bytes[line_no + 1] ELSE 0

\* One turn of the loop of run_prompt: the read, and then the break or
\* the call of run on the same interpreter.  At the end of input the
\* buffer is empty and the parser delivers no statement.
RunPrompt ==
    /\ session.mode = "prompt" /\ prompt_loop = "reading"
    /\ panic = "" /\ stack = <<>>
    /\ IF read_line = 1 \/ read_line < 0
       THEN /\ prompt_loop' = "returned"
            /\ line_no' = line_no + 1
            /\ UNCHANGED <<session, statements, envs, instances, environment,
                           locals, active_break, next_rc, stack, res, output,
                           exit_code, panic, recorded, event, parser, scanner, resolver>>
       ELSE IF read_line = 0 THEN call_run(<<>>, "none")
       ELSE call_run(session.lines[line_no + 1], session.faults[line_no + 1])

(***************************************************************************)
(* Source programs, given as the statements Parser::parse delivers for     *)
(* them.  A token carries the line the scanner counted and its column.     *)
(* Binary and Logical keep the token_type of their operator token.         *)
(***************************************************************************)
V(lexeme, line, col) == Variable(Ident(lexeme, line, col))
Num(n) == Literal(Number(n))
Str(text) == Literal(String(text))
Paren(line) == Tok("RightParen", ")", line, 99)
ReturnKw(line) == Tok("Return", "return", line, 98)
ThisKw(line, col) == Tok("This", "this", line, col)
SuperKw(line, col) == Tok("Super", "super", line, col)
Call0(callee, line) == Call(callee, Paren(line), <<>>)
Call1(callee, argument, line) == Call(callee, Paren(line), <<argument>>)
\* Parser::return_statement; written is None when the token after the
\* keyword is the semicolon.
return_statement(keyword, written) ==
    [Return(keyword, IF written = None THEN Literal(Nil) ELSE written)
        EXCEPT !.written = written]
Method(lexeme, line, params, body) ==
    Function(Ident(lexeme, line, 0), Closure(params, body))

\* The longest statement list tried as the body of the block under test.
MaxBlockLen == 2

\* A statement for line `line` of the block under test:
\*   1  var b = 2;      2  c = 7;      3  a = 3;      4  undef;
\*   5  return c;       6  { var c = 9; c = 8; }
BlockItem(item, line) ==
    CASE item = 1 -> Var(Ident("b", line, 1), Num(2))
      [] item = 2 -> Expression(Assign(Ident("c", line, 1), Num(7)))
      [] item = 3 -> Expression(Assign(Ident("a", line, 1), Num(3)))
      [] item = 4 -> Expression(V("undef", line, 1))
      [] item = 5 -> Return(ReturnKw(line), V("c", line, 1))
      [] item = 6 -> Block(<<Var(Ident("c", line, 1), Num(9)),
                             Expression(Assign(Ident("c", line, 2), Num(8)))>>)

BlockItems == 1..6

BlockBodies == UNION {[1..n -> BlockItems] : n \in 0..MaxBlockLen}

\*  1  var a = 1;
\*  2  fun f() { var c = 0;
\*  3..  { <body, one statement a line> }
\* 19    return c; }
\* 20  print f();
BlockProgram(body) ==
    <<Var(Ident("a", 1, 1), Num(1)),
      Function(Ident("f", 2, 1), Closure(<<>>,
          <<Var(Ident("c", 2, 2), Num(0)),
            Block([i \in 1..Len(body) |-> BlockItem(body[i], 2 + i)]),
            Return(ReturnKw(19), V("c", 19, 1))>>)),
      PrintStmt(Call0(V("f", 20, 1), 20))>>

\*  1  class A {
\*  2    init(n) { this.n = n; }
\*  3    get() { return this.n; } }
\*  4  class B < A {
\*  5    get() { return super.get() + 1; } }
\*  6  var b = B(1);
\*  7  print b.get();
\*  8  var i = 0;
\*  9  while (i < 3) {
\* 10    if (i < 1 or false) { i = i + 1; } else { break; } }
\* 11  if (clock() < 0 and true) print i;
\* 12  var h = fun (x) { return x; };
\* 13  print h(2);
\* 14  print A(1, 2);
ClassProgram ==
    <<Class(Ident("A", 1, 1), None,
        <<Method("init", 2, <<Ident("n", 2, 1)>>,
            <<Expression(Set(This(ThisKw(2, 2)), Ident("n", 2, 3), V("n", 2, 4)))>>),
          Method("get", 3, <<>>,
            <<Return(ReturnKw(3), Get(This(ThisKw(3, 1)), Ident("n", 3, 2)))>>)>>),
      Class(Ident("B", 4, 1), V("A", 4, 2),
        <<Method("get", 5, <<>>,
            <<Return(ReturnKw(5),
                Binary(Call0(Super(SuperKw(5, 1), Ident("get", 5, 2)), 5),
                       "Plus", Num(1)))>>)>>),
      Var(Ident("b", 6, 1), Call1(V("B", 6, 2), Num(1), 6)),
      PrintStmt(Call0(Get(V("b", 7, 1), Ident("get", 7, 2)), 7)),
      Var(Ident("i", 8, 1), Num(0)),
      While(Binary(V("i", 9, 1), "Less", Num(3)),
        Block(<<If(Logical(Binary(V("i", 10, 1), "Less", Num(1)), "Or",
                           Literal(Boolean(FALSE))),
                   Block(<<Expression(Assign(Ident("i", 10, 2),
                               Binary(V("i", 10, 3), "Plus", Num(1))))>>),
                   Block(<<Break>>))>>)),
      If(Logical(Binary(Call0(V("clock", 11, 1), 11), "Less", Num(0)), "And",
                 Literal(Boolean(TRUE))),
         PrintStmt(V("i", 11, 2)), None),
      Var(Ident("h", 12, 1),
          Closure(<<Ident("x", 12, 2)>>, <<Return(ReturnKw(12), V("x", 12, 3))>>)),
      PrintStmt(Call1(V("h", 13, 1), Num(2), 13)),
      PrintStmt(Call(V("A", 14, 1), Paren(14), <<Num(1), Num(2)>>))>>

\*  1  var g;
\*  2  var i = 0;
\*  3  while (i < 1) {
\*  4    fun f() { break; }
\*  5    g = f;
\*  6    i = i + 1; }
\*  7  g();
\*  8  { print "x"; }
BreakProgram ==
    <<Var(Ident("g", 1, 1), None),
      Var(Ident("i", 2, 1), Num(0)),
      While(Binary(V("i", 3, 1), "Less", Num(1)),
        Block(<<Function(Ident("f", 4, 1), Closure(<<>>, <<Break>>)),
                Expression(Assign(Ident("g", 5, 1), V("f", 5, 2))),
                Expression(Assign(Ident("i", 6, 1),
                    Binary(V("i", 6, 2), "Plus", Num(1))))>>)),
      Expression(Call0(V("g", 7, 1), 7)),
      Block(<<PrintStmt(Str("x"))>>)>>

\*  1  var g;
\*  2  var i = 0;
\*  3  while (i < 2) {
\*  4    fun f() { break; print "f"; }
\*  5    g = f;
\*  6    i = i + 1;
\*  7    f();
\*  8    print i; }
\*  9  g();
\* 10  g();
CallerLoopProgram ==
    <<Var(Ident("g", 1, 1), None),
      Var(Ident("i", 2, 1), Num(0)),
      While(Binary(V("i", 3, 1), "Less", Num(2)),
        Block(<<Function(Ident("f", 4, 1), Closure(<<>>, <<Break, PrintStmt(Str("f"))>>)),
                Expression(Assign(Ident("g", 5, 1), V("f", 5, 2))),
                Expression(Assign(Ident("i", 6, 1),
                    Binary(V("i", 6, 2), "Plus", Num(1)))),
                Expression(Call0(V("f", 7, 1), 7)),
                PrintStmt(V("i", 8, 1))>>)),
      Expression(Call0(V("g", 9, 1), 9)),
      Expression(Call0(V("g", 10, 1), 10))>>

\* var a = "global"; { fun show() { print a; } var a = "block"; show(); }
ShowProgram ==
    <<Var(Ident("a", 1, 1), Str("global")),
      Block(<<Function(Ident("show", 1, 2),
                  Closure(<<>>, <<PrintStmt(V("a", 1, 3))>>)),
              Var(Ident("a", 1, 4), Str("block")),
              Expression(Call0(V("show", 1, 5), 1))>>)>>

\* var a = "global"; { fun show() { print a; } var a = "block"; { print a; } show(); }
ShadowProgram ==
    <<Var(Ident("a", 1, 1), Str("global")),
      Block(<<Function(Ident("show", 1, 2),
                  Closure(<<>>, <<PrintStmt(V("a", 1, 3))>>)),
              Var(Ident("a", 1, 4), Str("block")),
              Block(<<PrintStmt(V("a", 1, 5))>>),
              Expression(Call0(V("show", 1, 6), 1))>>)>>

\*  1  {
\*  2    var x = 1;
\*  3    class A {}
\*  4    class B < A {
\*  5      m() { print x; } }
\*  6    B().m(); }
SubclassProgram ==
    <<Block(<<Var(Ident("x", 2, 1), Num(1)),
              Class(Ident("A", 3, 1), None, <<>>),
              Class(Ident("B", 4, 1), V("A", 4, 2),
                <<Method("m", 5, <<>>, <<PrintStmt(V("x", 5, 1))>>)>>),
              Expression(Call0(Get(Call0(V("B", 6, 1), 6), Ident("m", 6, 2)), 6))>>)>>

\* { var a = 1; { print a; } print a; }
SameLineProgram ==
    <<Block(<<Var(Ident("a", 1, 1), Num(1)),
              Block(<<PrintStmt(V("a", 1, 2))>>),
              PrintStmt(V("a", 1, 3))>>)>>

\*  1  class P {}
\*  2  var p = P();
\*  3  var q = P();
\*  4  print p == q;
\*  5  print p != q;
\*  6  p.x = 1;
\*  7  print p == q;
\*  8  print p == p;
\*  9  print p == 1;
TwinProgram ==
    <<Class(Ident("P", 1, 1), None, <<>>),
      Var(Ident("p", 2, 1), Call0(V("P", 2, 2), 2)),
      Var(Ident("q", 3, 1), Call0(V("P", 3, 2), 3)),
      PrintStmt(Binary(V("p", 4, 1), "EqualEqual", V("q", 4, 2))),
      PrintStmt(Binary(V("p", 5, 1), "BangEqual", V("q", 5, 2))),
      Expression(Set(V("p", 6, 1), Ident("x", 6, 2), Num(1))),
      PrintStmt(Binary(V("p", 7, 1), "EqualEqual", V("q", 7, 2))),
      PrintStmt(Binary(V("p", 8, 1), "EqualEqual", V("p", 8, 2))),
      PrintStmt(Binary(V("p", 9, 1), "EqualEqual", Num(1)))>>

\*  1  class C { m() {} }
\*  2  var c = C();
\*  3  var d = c;
\*  4  print c == d;
\*  5  fun f() {}
\*  6  var g = f;
\*  7  print f == g;
\*  8  print nil + 1;
SelfProgram ==
    <<Class(Ident("C", 1, 1), None, <<Method("m", 1, <<>>, <<>>)>>),
      Var(Ident("c", 2, 1), Call0(V("C", 2, 2), 2)),
      Var(Ident("d", 3, 1), V("c", 3, 2)),
      PrintStmt(Binary(V("c", 4, 1), "EqualEqual", V("d", 4, 2))),
      Function(Ident("f", 5, 1), Closure(<<>>, <<>>)),
      Var(Ident("g", 6, 1), V("f", 6, 2)),
      PrintStmt(Binary(V("f", 7, 1), "EqualEqual", V("g", 7, 2))),
      PrintStmt(Binary(Literal(Nil), "Plus", Num(1)))>>

\*  1  var x = 0;
\*  2  fun t() { x = x + 1; return 9; }
\*  3  print nil and t();
\*  4  print 2 or t();
\*  5  print nil or "b";
\*  6  print 1 and 2;
\*  7  print false or t();
\*  8  print x;
LogicProgram ==
    <<Var(Ident("x", 1, 1), Num(0)),
      Function(Ident("t", 2, 1), Closure(<<>>,
          <<Expression(Assign(Ident("x", 2, 2),
                Binary(V("x", 2, 3), "Plus", Num(1)))),
            Return(ReturnKw(2), Num(9))>>)),
      PrintStmt(Logical(Literal(Nil), "And", Call0(V("t", 3, 1), 3))),
      PrintStmt(Logical(Num(2), "Or", Call0(V("t", 4, 1), 4))),
      PrintStmt(Logical(Literal(Nil), "Or", Str("b"))),
      PrintStmt(Logical(Num(1), "And", Num(2))),
      PrintStmt(Logical(Literal(Boolean(FALSE)), "Or", Call0(V("t", 7, 1), 7))),
      PrintStmt(V("x", 8, 1))>>

\* 1  class K {
\* 2    init(n) { this.n = n; return; this.n = 0; } }
\* 3  class P { init() { this.p = 1; } }
\* 4  var k = K(5);
\* 5  print k.n;
\* 6  print k.init(6).n;
\* 7  print k.n;
\* 8  print P().init().p;
InitProgram ==
    <<Class(Ident("K", 1, 1), None,
        <<Method("init", 2, <<Ident("n", 2, 1)>>,
            <<Expression(Set(This(ThisKw(2, 2)), Ident("n", 2, 3), V("n", 2, 4))),
              return_statement(ReturnKw(2), None),
              Expression(Set(This(ThisKw(2, 5)), Ident("n", 2, 6), Num(0)))>>)>>),
      Class(Ident("P", 3, 1), None,
        <<Method("init", 3, <<>>,
            <<Expression(Set(This(ThisKw(3, 2)), Ident("p", 3, 3), Num(1)))>>)>>),
      Var(Ident("k", 4, 1), Call1(V("K", 4, 2), Num(5), 4)),
      PrintStmt(Get(V("k", 5, 1), Ident("n", 5, 2))),
      PrintStmt(Get(Call1(Get(V("k", 6, 1), Ident("init", 6, 2)), Num(6), 6),
                    Ident("n", 6, 3))),
      PrintStmt(Get(V("k", 7, 1), Ident("n", 7, 2))),
      PrintStmt(Get(Call0(Get(Call0(V("P", 8, 1), 8), Ident("init", 8, 2)), 8),
                    Ident("p", 8, 3)))>>

\* 1  class T {
\* 2    who() { print this.id; { print this.id; } } }
\* 3  var t = T();
\* 4  t.id = 1;
\* 5  var m = t.who;
\* 6  m();
ThisProgram ==
    <<Class(Ident("T", 1, 1), None,
        <<Method("who", 2, <<>>,
            <<PrintStmt(Get(This(ThisKw(2, 1)), Ident("id", 2, 2))),
              Block(<<PrintStmt(Get(This(ThisKw(2, 3)), Ident("id", 2, 4)))>>)>>)>>),
      Var(Ident("t", 3, 1), Call0(V("T", 3, 2), 3)),
      Expression(Set(V("t", 4, 1), Ident("id", 4, 2), Num(1))),
      Var(Ident("m", 5, 1), Get(V("t", 5, 2), Ident("who", 5, 3))),
      Expression(Call0(V("m", 6, 1), 6))>>

\* 1  class A { m() { print "A"; } }
\* 2  class B < A { m() { print "B"; super.m(); }
\* 3                n() { super.zip(); } }
\* 4  class C < B { m() { print "C"; super.m(); } }
\* 5  C().m();
\* 6  C().n();
SuperProgram ==
    <<Class(Ident("A", 1, 1), None,
        <<Method("m", 1, <<>>, <<PrintStmt(Str("A"))>>)>>),
      Class(Ident("B", 2, 1), V("A", 2, 2),
        <<Method("m", 2, <<>>,
            <<PrintStmt(Str("B")),
              Expression(Call0(Super(SuperKw(2, 3), Ident("m", 2, 4)), 2))>>),
          Method("n", 3, <<>>,
            <<Expression(Call0(Super(SuperKw(3, 1), Ident("zip", 3, 2)), 3))>>)>>),
      Class(Ident("C", 4, 1), V("B", 4, 2),
        <<Method("m", 4, <<>>,
            <<PrintStmt(Str("C")),
              Expression(Call0(Super(SuperKw(4, 3), Ident("m", 4, 4)), 4))>>)>>),
      Expression(Call0(Get(Call0(V("C", 5, 1), 5), Ident("m", 5, 2)), 5)),
      Expression(Call0(Get(Call0(V("C", 6, 1), 6), Ident("n", 6, 2)), 6))>>

\* 1  class A { m() { print "A"; } }
\* 2  class B < A { m() { { super.m(); } super.m(); } }
\* 3  B().m();
SuperLineProgram ==
    <<Class(Ident("A", 1, 1), None,
        <<Method("m", 1, <<>>, <<PrintStmt(Str("A"))>>)>>),
      Class(Ident("B", 2, 1), V("A", 2, 2),
        <<Method("m", 2, <<>>,
            <<Block(<<Expression(Call0(Super(SuperKw(2, 3), Ident("m", 2, 4)), 2))>>),
              Expression(Call0(Super(SuperKw(2, 5), Ident("m", 2, 6)), 2))>>)>>),
      Expression(Call0(Get(Call0(V("B", 3, 1), 3), Ident("m", 3, 2)), 3))>>

\*  1  class P {}
\*  2  var a = P();
\*  3  var b = a;
\*  4  b.x = 1;
\*  5  print a.x;
\*  6  fun w(o) { o.x = 2; }
\*  7  w(a);
\*  8  print b.x;
\*  9  var h = P();
\* 10  h.f = a;
\* 11  h.f.x = 3;
\* 12  print a.x;
AliasProgram ==
    <<Class(Ident("P", 1, 1), None, <<>>),
      Var(Ident("a", 2, 1), Call0(V("P", 2, 2), 2)),
      Var(Ident("b", 3, 1), V("a", 3, 2)),
      Expression(Set(V("b", 4, 1), Ident("x", 4, 2), Num(1))),
      PrintStmt(Get(V("a", 5, 1), Ident("x", 5, 2))),
      Function(Ident("w", 6, 1), Closure(<<Ident("o", 6, 2)>>,
          <<Expression(Set(V("o", 6, 3), Ident("x", 6, 4), Num(2)))>>)),
      Expression(Call1(V("w", 7, 1), V("a", 7, 2), 7)),
      PrintStmt(Get(V("b", 8, 1), Ident("x", 8, 2))),
      Var(Ident("h", 9, 1), Call0(V("P", 9, 2), 9)),
      Expression(Set(V("h", 10, 1), Ident("f", 10, 2), V("a", 10, 3))),
      Expression(Set(Get(V("h", 11, 1), Ident("f", 11, 2)), Ident("x", 11, 3), Num(3))),
      PrintStmt(Get(V("a", 12, 1), Ident("x", 12, 2)))>>

\* 1  class K {
\* 2    init() { return 1; } }
InitValueProgram ==
    <<Class(Ident("K", 1, 1), None,
        <<Method("init", 2, <<>>, <<return_statement(ReturnKw(2), Num(1))>>)>>)>>

\* 1  class K {
\* 2    init() { this.n = 1;
\* 3      if (true) return nil;
\* 4      this.n = 2; }
\* 5    other() { return nil; } }
\* 6  print K().n;
InitNilProgram ==
    <<Class(Ident("K", 1, 1), None,
        <<Method("init", 2, <<>>,
            <<Expression(Set(This(ThisKw(2, 1)), Ident("n", 2, 2), Num(1))),
              If(Literal(Boolean(TRUE)),
                 return_statement(ReturnKw(3), Literal(Nil)), None),
              Expression(Set(This(ThisKw(4, 1)), Ident("n", 4, 2), Num(2)))>>),
          Method("other", 5, <<>>,
            <<return_statement(ReturnKw(5), Literal(Nil))>>)>>),
      PrintStmt(Get(Call0(V("K", 6, 1), 6), Ident("n", 6, 2)))>>

\* return 1;      (the resolver rejects it)
TopReturnProgram == <<Return(ReturnKw(1), Num(1))>>

\* Lines typed at the prompt; the scanner counts each as line 1.
\* { var a = 1; { print a; } }
PromptBlockLine ==
    <<Block(<<Var(Ident("a", 1, 1), Num(1)),
              Block(<<PrintStmt(V("a", 1, 2))>>)>>)>>

\* var a = 2; print a;
PromptGlobalLine ==
    <<Var(Ident("a", 1, 11), Num(2)), PrintStmt(V("a", 1, 12))>>

\* var n = 1;
PromptVarLine == <<Var(Ident("n", 1, 1), Num(1))>>

\* n = n + 1; print n;
PromptAssignLine ==
    <<Expression(Assign(Ident("n", 1, 11), Binary(V("n", 1, 12), "Plus", Num(1)))),
      PrintStmt(V("n", 1, 13))>>

\* The lines of a prompt session:
\*   fun a() { print "a"; return 1; } fun b() { print "b"; return 2; }
\*       fun f(x, y) { return x + y; }
\*   print f(a(), b());
\*   print f(a(), undef, b());
\*   print "s"(a(), b());
\*   print f(a());
CallLines ==
    << <<Function(Ident("a", 1, 1), Closure(<<>>,
             <<PrintStmt(Str("a")), Return(ReturnKw(1), Num(1))>>)),
         Function(Ident("b", 1, 2), Closure(<<>>,
             <<PrintStmt(Str("b")), Return(ReturnKw(1), Num(2))>>)),
         Function(Ident("f", 1, 3), Closure(<<Ident("x", 1, 4), Ident("y", 1, 5)>>,
             <<Return(ReturnKw(1), Binary(V("x", 1, 6), "Plus", V("y", 1, 7)))>>))>>,
       <<PrintStmt(Call(V("f", 1, 21), Paren(1),
             <<Call0(V("a", 1, 22), 1), Call0(V("b", 1, 23), 1)>>))>>,
       <<PrintStmt(Call(V("f", 1, 31), Paren(1),
             <<Call0(V("a", 1, 32), 1), V("undef", 1, 33), Call0(V("b", 1, 34), 1)>>))>>,
       <<PrintStmt(Call(Str("s"), Paren(1),
             <<Call0(V("a", 1, 41), 1), Call0(V("b", 1, 42), 1)>>))>>,
       <<PrintStmt(Call1(V("f", 1, 51), Call0(V("a", 1, 52), 1), 1))>> >>

\* print 1;   followed by a character the scanner rejects ("print 1; @") or
\* by a statement the parser rejects ("print 1; print ;"): the statement
\* the parser collected before the end of the text.
FaultProgram == <<PrintStmt(Num(1))>>

\* A session: the source texts handed to run() one after the other, each
\* with what the scanner and the parser report for it.
\* 1  class A { init(n) { print n; } }
\* 2  class B < A {}
\* 3  class C < B { init() { print "c"; } }
\* 4  class E {}
\* 5  the call;
ArityProgram(call) ==
    <<Class(Ident("A", 1, 1), None,
        <<Method("init", 1, <<Ident("n", 1, 2)>>, <<PrintStmt(V("n", 1, 3))>>)>>),
      Class(Ident("B", 2, 1), V("A", 2, 2), <<>>),
      Class(Ident("C", 3, 1), V("B", 3, 2),
        <<Method("init", 3, <<>>, <<PrintStmt(Str("c"))>>)>>),
      Class(Ident("E", 4, 1), None, <<>>),
      Expression(call)>>

\* B(7)  B()  B(7, 8)  C()  C(7)  E()  E(7)
ArityCalls ==
    {Call(V(class, 5, 1), Paren(5), arguments) :
        class \in {"B", "C", "E"}, arguments \in {<<>>, <<Num(7)>>, <<Num(7), Num(8)>>}}

\* Parser::for_statement, the tree it builds from the clauses and the body
\* it parsed: None is a clause that is absent.
for_desugar(initializer_option, condition_option, increment_option, body) ==
    LET condition == IF condition_option = None THEN Literal(Boolean(TRUE))
                     ELSE condition_option
        body1 == IF increment_option # None
                 THEN Block(<<body, Expression(increment_option)>>)
                 ELSE body
        body2 == While(condition, body1)
    IN IF initializer_option # None THEN Block(<<initializer_option, body2>>)
       ELSE body2

\* What the parser builds for the loop written by hand,
\* { init; while (cond) { body; incr; } }, without the clauses that are absent.
HandWritten(initializer_option, condition_option, increment_option, body) ==
    LET condition == IF condition_option = None THEN Literal(Boolean(TRUE))
                     ELSE condition_option
        inner == IF increment_option # None
                 THEN <<body, Expression(increment_option)>>
                 ELSE <<body>>
        loop == While(condition, Block(inner))
    IN IF initializer_option # None THEN Block(<<initializer_option, loop>>)
       ELSE Block(<<loop>>)

\* Three loops, each as the statements before it, its clauses and body, the
\* statements after it and what it prints.
\*   for (var i = 0; i < 1;) print i = i + 1;                (on one line)
\*   var n = 0;  for (;; n = n + 1) { print n; break; }  print n;
\*   for (var i = 0; i < 2; i = i + 1) print i;
\* The last two have every reference on a line of its own.
ForLoops ==
    {[before |-> <<>>,
      initializer |-> Var(Ident("i", 1, 1), Num(0)),
      condition |-> Binary(V("i", 1, 2), "Less", Num(1)),
      increment |-> None,
      body |-> PrintStmt(Assign(Ident("i", 1, 3),
                                Binary(V("i", 1, 4), "Plus", Num(1)))),
      after |-> <<>>,
      prints |-> <<Number(1)>>],
     [before |-> <<Var(Ident("n", 1, 1), Num(0))>>,
      initializer |-> None,
      condition |-> None,
      increment |-> Assign(Ident("n", 3, 1), Binary(V("n", 3, 2), "Plus", Num(1))),
      body |-> Block(<<PrintStmt(V("n", 4, 1)), Break>>),
      after |-> <<PrintStmt(V("n", 6, 1))>>,
      prints |-> <<Number(0), Number(0)>>],
     [before |-> <<>>,
      initializer |-> Var(Ident("i", 1, 1), Num(0)),
      condition |-> Binary(V("i", 2, 1), "Less", Num(2)),
      increment |-> Assign(Ident("i", 3, 1), Binary(V("i", 3, 2), "Plus", Num(1))),
      body |-> PrintStmt(V("i", 4, 1)),
      after |-> <<>>,
      prints |-> <<Number(0), Number(1)>>]}

ForProgram(l) ==
    l.before \o <<for_desugar(l.initializer, l.condition, l.increment, l.body)>>
             \o l.after

HandProgram(l) ==
    l.before \o <<HandWritten(l.initializer, l.condition, l.increment, l.body)>>
             \o l.after

\*  1  class P {}
\*  2  var p = P();
\*  3  p.me = p;
\*  4  print p != P();
\*  5  print p == p;
CycleProgram ==
    <<Class(Ident("P", 1, 1), None, <<>>),
      Var(Ident("p", 2, 1), Call0(V("P", 2, 2), 2)),
      Expression(Set(V("p", 3, 1), Ident("me", 3, 2), V("p", 3, 3))),
      PrintStmt(Binary(V("p", 4, 1), "BangEqual", Call0(V("P", 4, 2), 4))),
      PrintStmt(Binary(V("p", 5, 1), "EqualEqual", V("p", 5, 2)))>>

\*  1  class P {}
\*  2  var p = P();
\*  3  var q = P();
\*  4  p.other = q;
\*  5  q.other = p;
\*  6  p.n = 1;
\*  7  q.n = 2;
\*  8  print p == q;
OrderProgram ==
    <<Class(Ident("P", 1, 1), None, <<>>),
      Var(Ident("p", 2, 1), Call0(V("P", 2, 2), 2)),
      Var(Ident("q", 3, 1), Call0(V("P", 3, 2), 3)),
      Expression(Set(V("p", 4, 1), Ident("other", 4, 2), V("q", 4, 3))),
      Expression(Set(V("q", 5, 1), Ident("other", 5, 2), V("p", 5, 3))),
      Expression(Set(V("p", 6, 1), Ident("n", 6, 2), Num(1))),
      Expression(Set(V("q", 7, 1), Ident("n", 7, 2), Num(2))),
      PrintStmt(Binary(V("p", 8, 1), "EqualEqual", V("q", 8, 2)))>>

\* 1  { class A < A {
\* 2      init() { return 1; }
\* 3      m() { fun g() { var a = 1; var a = 2; return a; } } }
\* 4    var b = b; }
\* 5  return;
StaticErrorsProgram ==
    <<Block(<<Class(Ident("A", 1, 1), V("A", 1, 2),
                <<Method("init", 2, <<>>, <<return_statement(ReturnKw(2), Num(1))>>),
                  Method("m", 3, <<>>,
                    <<Function(Ident("g", 3, 1),
                        Closure(<<>>, <<Var(Ident("a", 3, 2), Num(1)),
                                        Var(Ident("a", 3, 3), Num(2)),
                                        return_statement(ReturnKw(3), V("a", 3, 4))>>))>>)>>),
              Var(Ident("b", 4, 1), V("b", 4, 2))>>),
      return_statement(ReturnKw(5), None)>>

File(source) ==
    [mode |-> "file", lines |-> <<source>>, faults |-> <<"none">>, bytes |-> <<2>>]

\* bytes is what read_line returns for each line: 2 stands for any line
\* with text before its newline.
Prompt(lines) ==
    [mode |-> "prompt", lines |-> lines, faults |-> [i \in DOMAIN lines |-> "none"],
     bytes |-> [i \in DOMAIN lines |-> 2]]

\* The session s with a last read of n bytes: 1 is a line that holds only
\* the newline, -1 a read error.
EndedBy(s, n) ==
    [s EXCEPT !.lines = Append(@, <<>>), !.faults = Append(@, "none"),
              !.bytes = Append(@, n)]

WithFaults(s, faults) == [s EXCEPT !.faults = faults]

Sessions ==
    {File(BlockProgram(body)) : body \in BlockBodies}
    \cup {File(ArityProgram(call)) : call \in ArityCalls}
    \cup {File(ForProgram(l)) : l \in ForLoops}
    \cup {File(HandProgram(l)) : l \in ForLoops}
    \cup {File(CycleProgram), File(OrderProgram), File(StaticErrorsProgram)}
    \cup {File(ClassProgram), File(BreakProgram), File(CallerLoopProgram),
          File(ShowProgram),
          File(ShadowProgram), File(SubclassProgram), File(SameLineProgram),
          File(TwinProgram), File(SelfProgram), File(TopReturnProgram),
          File(LogicProgram), File(InitProgram), File(ThisProgram),
          File(SuperProgram), File(SuperLineProgram), File(AliasProgram),
          File(InitValueProgram), File(InitNilProgram),
          Prompt(<<PromptBlockLine, PromptGlobalLine>>),
          Prompt(<<PromptVarLine, PromptAssignLine>>),
          Prompt(CallLines),
          EndedBy(Prompt(<<PromptVarLine, PromptAssignLine>>), 1),
          EndedBy(Prompt(<<PromptVarLine>>), -1),
          WithFaults(File(FaultProgram), <<"scanner.had_error">>),
          WithFaults(File(FaultProgram), <<"parse_result.is_err">>),
          WithFaults(Prompt(<<FaultProgram, PromptVarLine, FaultProgram>>),
                     <<"scanner.had_error", "none", "parse_result.is_err">>)}

\* Scanner::new.  it is the place of char_iter in the characters of the
\* source, start and current count bytes; reports is what report() wrote,
\* with the place of the character scan_token had taken; panic is the
\* message of the panic that ended the scan and returned tells that
\* scan_tokens returned.
Scanner_new(source) ==
    [source |-> source, it |-> 1, start |-> 0, current |-> 0, line |-> 1,
     tokens |-> <<>>, had_error |-> FALSE, reports |-> <<>>, panic |-> "",
     returned |-> FALSE]

\* Parser::new.  ok is the Ok or Err of the parse function that returned
\* last and reports is what report() wrote; depth, the number of loop
\* bodies the parser is inside of, breaks, the break statements parsed,
\* syncs, the calls of synchronize, and stalled, a turn of the loop of
\* block() that consumed nothing, are history.
Parser_new(tokens) ==
    [tokens |-> tokens, pos |-> 1, had_error |-> FALSE, loop_level |-> 0,
     ok |-> TRUE, reports |-> <<>>, depth |-> 0, breaks |-> <<>>,
     syncs |-> <<>>, stalled |-> FALSE, result |-> "none"]

\* Interpreter::new, before run_file or run_prompt hands it a source text.
Interpreter_new ==
    /\ line_no = 0
    /\ statements = <<>>
    /\ envs = define(<<Environment(0)>>, globals, "clock", NativeClock)
    /\ instances = <<>>
    /\ environment = globals
    /\ locals = EmptyMap
    /\ active_break = FALSE
    /\ next_rc = 0
    /\ stack = <<>>
    /\ res = NoRes
    /\ output = <<>>
    /\ exit_code = -1
    /\ panic = ""
    /\ recorded = EmptyMap
    /\ event = NoEvent
    /\ resolver = None

Init ==
    /\ session \in Sessions
    /\ parser = Parser_new(<<"Eof">>)
    /\ scanner = Scanner_new(<<>>)
    /\ prompt_loop = "reading"
    /\ Interpreter_new

Next ==
    \/ RunFile
    \/ RunPrompt
    \/ Run
    \/ Interpret
    \/ ExecuteBlock
    \/ ExpressionStmt
    \/ PrintStatement
    \/ VarStmt
    \/ BlockStmt
    \/ IfStmt
    \/ WhileStmt
    \/ BreakStmt
    \/ FunctionStmt
    \/ ReturnStmt
    \/ ClassStmt
    \/ LiteralExpr
    \/ VariableExpr
    \/ AssignExpr
    \/ BinaryExpr
    \/ LogicalExpr
    \/ CallExpr
    \/ GetExpr
    \/ SetExpr
    \/ ThisExpr
    \/ SuperExpr
    \/ ClosureExpr
    \/ FunctionCall
    \/ ClassCall

Spec == Init /\ [][Next]_vars

(***************************************************************************)
(* Properties.                                                             *)
(***************************************************************************)
\* C1: whenever a call of execute_block returns -- after its last statement,
\* with a runtime error, or with a Return signal raised by a statement of
\* the block -- Interpreter.environment is the environment reference it was
\* when the call began.
C1_ExecuteBlockRestores ==
    event.k = "execute_block" => environment = event.frame.entry

\* A call of execute_block that ran in its own environment has just
\* returned a runtime error, and the caller's environment is current again.
C1_Witness ==
    /\ event.k = "execute_block"
    /\ event.res.x = "RuntimeError"
    /\ event.frame.env # event.frame.entry
    /\ event.frame.pc > 1
    /\ environment = event.frame.entry

\* C2 as stated: when a runtime error has propagated out of a block
\* statement, the bindings (names and values) of the environment enclosing
\* the block are exactly those present when the block was entered.
C2_BindingsAsAtEntry ==
    (event.k = "block" /\ event.res.x = "RuntimeError")
        => envs[event.frame.entry].values = event.frame.snap

\* The block statements that are running: their execute_block has not returned.
ActiveBlocks == {i \in DOMAIN stack : stack[i].k = "block" /\ stack[i].pc = 1}

\* C2, amended: when a runtime error has propagated out of a block
\* statement, the current environment is again the environment enclosing
\* the block and it still binds every name it bound when the block was
\* entered; while the block runs, the bindings of that environment change
\* only by an assignment expression (whose effect persists after the
\* error), never by a declaration made in the block.
C2_OnlyAssignmentsPersist ==
    /\ [](event.k = "block" /\ event.res.x = "RuntimeError"
            => /\ environment = event.frame.entry
               /\ DOMAIN event.frame.snap
                      \subseteq DOMAIN envs[event.frame.entry].values)
    /\ [][\A i \in ActiveBlocks :
              envs'[stack[i].entry].values # envs[stack[i].entry].values
                  => Top(Cur).k = "assign"]_vars

\* A runtime error has propagated out of a block statement in which an
\* assignment changed a binding of the enclosing environment.
C2_Witness ==
    /\ event.k = "block"
    /\ event.res.x = "RuntimeError"
    /\ environment = event.frame.entry
    /\ DOMAIN envs[event.frame.entry].values = DOMAIN event.frame.snap
    /\ envs[event.frame.entry].values # event.frame.snap

\* C3: a break ends the innermost while loop that encloses it and nothing
\* more: while the break flag is pending, a while loop is running its body
\* (the loop the break ends), so no statement after a loop that has ended,
\* or outside any loop, is skipped.
C3_BreakEndsItsLoop ==
    active_break => \E i \in DOMAIN stack : stack[i].k = "while" /\ stack[i].pc = 2

\* The binding a reference denotes where it stands in the source text, as
\* resolve_local found it: by name in the global environment, or depth
\* environments up from the one the reference is evaluated in.
LexicalBinding(name) ==
    IF recorded[name].t = "global" THEN get(envs, globals, name)
    ELSE get_at(envs, environment, recorded[name].depth, name.lexeme)

InFunctionBody == \E i \in DOMAIN stack : stack[i].k = "LoxFunction_call"

\* C4: a variable reference inside a function body reads, on every call,
\* the binding that was lexically visible where the function was declared,
\* whatever was declared later under the same name in an enclosing block.
C4_ReadsDeclaredBinding ==
    (/\ event.k = "variable"
     /\ event.res.s = "ok"
     /\ InFunctionBody
     /\ Has(recorded, event.frame.n.name))
        => event.res.v = LexicalBinding(event.frame.n.name)

\* The token of the variable, assignment, this or super reference that the
\* handler on top of the stack is about to look up (None if there is none).
PendingReference ==
    IF panic # "" \/ stack = <<>> THEN None
    ELSE LET f == Top(Cur) IN
         CASE f.k = "variable" -> f.n.name
           [] f.k = "assign" /\ f.pc = 1 /\ res.s = "ok" -> f.n.name
           [] f.k \in {"this", "super"} -> f.n.keyword
           [] OTHER -> None

\* Walking depth enclosing links from the current environment reaches an
\* environment that binds lexeme.
DepthReaches(depth, lexeme) ==
    LET a == ancestor(envs, environment, depth)
    IN a # 0 /\ Has(envs[a].values, lexeme)

\* C5: when the interpreter evaluates a reference for which the resolver
\* recorded a depth, walking exactly the depth Interpreter.locals holds for
\* it from the current environment reaches an environment that binds the
\* name (and one link less reaches `this` for a super reference), so that
\* get_at and assign_at do not fail.
C5_DepthReachesBinding ==
    LET name == PendingReference IN
    (name # None /\ Has(recorded, name) /\ recorded[name].t = "local")
        => LET depth == locals[TokenKey(name)] IN
           /\ DepthReaches(depth, name.lexeme)
           /\ name.lexeme = "super"
                => depth > 0 /\ DepthReaches(depth - 1, "this")

\* The environments from e up its enclosing links.
RECURSIVE Chain(_)
Chain(e) ==
    IF envs[e].enclosing = 0 THEN {e} ELSE {e} \cup Chain(envs[e].enclosing)

\* The environments captured by a function value or by the methods of a
\* class value and of its superclasses.
RECURSIVE Captured(_)
Captured(value) ==
    CASE value.t = "fun" -> {value.context}
      [] value.t = "class" ->
            {value.methods[m].context : m \in DOMAIN value.methods}
            \cup (IF value.superclass = None THEN {}
                  ELSE Captured(value.superclass))
      [] OTHER -> {}

\* The current environment, its ancestors, the environments captured by
\* the values they bind, and the ancestors of those.
LiveEnvironments ==
    LET scope == Chain(environment)
        captured == UNION {UNION {Captured(envs[e].values[n]) :
                                      n \in DOMAIN envs[e].values} : e \in scope}
    IN scope \cup UNION {Chain(e) : e \in captured}

\* C6: every environment other than the global one has an enclosing
\* environment, and the global environment has none.
C6_EnclosingUnlessGlobal ==
    \A e \in LiveEnvironments : (envs[e].enclosing = 0) <=> (e = globals)

\* C7: identifier occurrences at different source positions are distinct
\* keys of Interpreter.locals: the depth the resolver recorded for an
\* occurrence is the depth the map holds for it.
C7_OccurrencesAreDistinctKeys ==
    \A name \in DOMAIN recorded :
        recorded[name].t = "local"
            => /\ Has(locals, TokenKey(name))
               /\ locals[TokenKey(name)] = recorded[name].depth

\* C8: a reference the resolver found in no scope has no entry in
\* Interpreter.locals, whatever was resolved on the interpreter before.
C8_GlobalsHaveNoEntry ==
    \A name \in DOMAIN recorded :
        recorded[name].t = "global" => ~Has(locals, TokenKey(name))

\* The operands of the == or != that has just been evaluated are a and b.
Compared(operator, a, b) ==
    /\ event.k = "binary"
    /\ event.res.s = "ok"
    /\ event.frame.n.operator = operator
    /\ event.frame.vals = <<a, b>>

TwoInstances ==
    {pair \in (DOMAIN instances) \X (DOMAIN instances) : pair[1] # pair[2]}

\* C9: two instances created by two class calls are unequal under == and
\* != whatever their class and fields.
C9_DistinctInstancesDiffer ==
    \A pair \in TwoInstances :
        /\ Compared("EqualEqual", Instance(pair[1]), Instance(pair[2]))
               => event.res.v = Boolean(FALSE)
        /\ Compared("BangEqual", Instance(pair[1]), Instance(pair[2]))
               => event.res.v = Boolean(TRUE)

\* a and b are one reference to an instance or to a user function.
SameReference(a, b) == a.t \in {"inst", "fun"} /\ a = b /\ a.rc # 0

\* C10: an instance or a user function compared with itself is equal
\* under ==.
C10_SameReferenceIsEqual ==
    (/\ event.k = "binary"
     /\ event.res.s = "ok"
     /\ event.frame.n.operator = "EqualEqual"
     /\ SameReference(event.frame.vals[1], event.frame.vals[2]))
        => event.res.v = Boolean(TRUE)

\* The left operand alone decides the value of the logical expression.
Decides(operator, left) ==
    \/ operator = "And" /\ ~is_truthy(left)
    \/ operator = "Or" /\ is_truthy(left)

\* C11: in `a and b` with a falsy and in `a or b` with a truthy, b is never
\* evaluated and the result is the value of a; otherwise b is evaluated and
\* the result is the value of b as it is, not a coerced boolean.
C11_ShortCircuit ==
    /\ [](\A i \in DOMAIN stack :
              (stack[i].k = "logical" /\ stack[i].pc = 2)
                  => ~Decides(stack[i].n.operator, stack[i].vals[1]))
    /\ []((event.k = "logical" /\ event.res.s = "ok")
              => IF Decides(event.frame.n.operator, event.frame.vals[1])
                 THEN event.frame.pc = 1 /\ event.res.v = event.frame.vals[1]
                 ELSE event.frame.pc = 2)
    /\ [][(Running("logical") /\ Top(Cur).pc = 2) => res' = res]_vars

\* `nil and t()` has just yielded nil without evaluating t().
C11_Witness ==
    /\ event.k = "logical"
    /\ event.frame.n.operator = "And"
    /\ event.frame.n.right.k = "call"
    /\ event.frame.pc = 1
    /\ event.frame.vals = <<Nil>>
    /\ event.res = Ok(Nil)

\* C12: a call expression evaluates the callee first and then the
\* arguments left to right, each once; the callable check, the arity check
\* and the call come after the last argument, and an error of the callee
\* or of an argument ends the call expression there.
C12_CallOrder ==
    [][Running("call") =>
        LET f == Top(Cur)
            args == f.n.arguments
        IN IF Len(stack') > Len(stack)
           THEN LET child == stack'[Len(stack')]
                    held == stack'[Len(stack)].vals
                IN \/ f.pc = 0 /\ held = <<>> /\ child.n = f.n.callee
                   \/ /\ f.pc = 1 /\ res.s = "ok"
                      /\ held = Append(f.vals, res.v)
                      /\ Len(held) <= Len(args)
                      /\ child.n = args[Len(held)]
                   \/ /\ f.pc = 1 /\ res.s = "ok"
                      /\ held = Append(f.vals, res.v)
                      /\ Len(held) = Len(args) + 1
                      /\ child.k \in {"LoxFunction_call", "LoxClass_call"}
                      /\ child.n = held[1]
                      /\ child.vals = Tail(held)
           ELSE \/ f.pc = 2
                \/ res.s = "err" /\ res' = res
                \/ Len(f.vals) = Len(args)]_vars

\* In f(a(), undef, b()) the error of the second argument has just ended
\* the call expression: the callee and a() are all that was evaluated.
C12_Witness ==
    /\ event.k = "call"
    /\ event.res.msg = "Undefined variable"
    /\ Len(event.frame.n.arguments) = 3
    /\ Len(event.frame.vals) = 2
    /\ output[Len(output)] = String("a")

\* C13: interpret never returns a Return signal: a Return is in flight
\* only below a user function call, and the first user function call it
\* reaches turns it into that call's result.
C13_ReturnNeverLeaks ==
    /\ [](event.k = "interpret" => event.res.x # "Return")
    /\ [](res.x = "Return" =>
            \E i \in DOMAIN stack : stack[i].k = "LoxFunction_call" /\ stack[i].pc = 1)
    /\ [][(Running("LoxFunction_call") /\ res.x = "Return") =>
            /\ res'.s = "ok"
            /\ Len(stack') = Len(stack) - 1
            /\ ~Top(Cur).n.is_initializer => res'.v = res.v]_vars

\* A Return raised inside a block of the function body has reached the
\* call of the function.
C13_Witness ==
    /\ stack # <<>>
    /\ Top(Cur).k = "LoxFunction_call"
    /\ res.x = "Return"
    /\ event.k = "execute_block"
    /\ event.frame.entry # Top(Cur).n.context

\* C14: a call of an initializer that does not fail yields the instance
\* bound as this in the environment the initializer captured, after a
\* normal completion of the body and after a return alike; a class call
\* creates one instance and returns that instance.
C14_InitializerYieldsThis ==
    /\ [][(/\ Running("LoxFunction_call")
           /\ Top(Cur).pc = 1
           /\ Top(Cur).n.is_initializer
           /\ res.x # "RuntimeError") =>
            /\ Has(envs[Top(Cur).n.context].values, "this")
            /\ envs[Top(Cur).n.context].values["this"].t = "inst"
            /\ res' = Ok(envs[Top(Cur).n.context].values["this"])
            /\ Len(stack') = Len(stack) - 1]_vars
    /\ [][(Running("LoxClass_call") /\ Top(Cur).pc = 0) =>
            /\ instances' = Append(instances, LoxInstance(Top(Cur).n))
            /\ IF Len(stack') > Len(stack)
               THEN /\ stack'[Len(stack)].vals = <<Instance(Len(instances'))>>
                    /\ stack'[Len(stack')].n.is_initializer
                    /\ envs'[stack'[Len(stack')].n.context].values["this"]
                          = Instance(Len(instances'))
               ELSE res' = Ok(Instance(Len(instances')))]_vars
    /\ [][(Running("LoxClass_call") /\ Top(Cur).pc = 1 /\ res.s = "ok") =>
            res' = Ok(Top(Cur).vals[1]) /\ res'.v = res.v]_vars

\* k.init(6) has returned k: the call was made directly on the instance and
\* the body ended with a return.
C14_Witness ==
    /\ event.k = "LoxFunction_call"
    /\ event.frame.n.is_initializer
    /\ event.res.s = "ok"
    /\ event.res.v.t = "inst"
    /\ Has(instances[event.res.v.rc].fields, "n")
    /\ instances[event.res.v.rc].fields["n"] = Number(6)
    /\ Top(Cur).k = "call"

\* The innermost binding of this on the chain of environment e, the
\* instance a method was bound to by LoxFunction::bind.
RECURSIVE BoundThis(_, _)
BoundThis(h, e) ==
    IF e = 0 THEN Missing
    ELSE IF Has(h[e].values, "this") THEN h[e].values["this"]
    ELSE BoundThis(h, h[e].enclosing)

\* C15: a property access that finds a method of instance i yields a
\* function whose captured environment holds only this -> i and encloses
\* the environment the class's method captured, which is left as it was;
\* whenever the body of that function runs, this evaluates to i.
C15_BoundMethodKeepsThis ==
    /\ [][(Running("get") /\ Top(Cur).pc = 1 /\ res.s = "ok" /\ res'.s = "ok"
             /\ res'.v.t = "fun") =>
            LET method == find_method(instances[res.v.rc].klass, Top(Cur).n.name.lexeme)
                bound == envs'[res'.v.context]
            IN \/ Has(instances[res.v.rc].fields, Top(Cur).n.name.lexeme)
               \/ /\ method # Missing
                  /\ res'.v.declaration = method.declaration
                  /\ res'.v.context = Len(envs) + 1
                  /\ bound.enclosing = method.context
                  /\ DOMAIN bound.values = {"this"}
                  /\ bound.values["this"] = res.v
                  /\ \A e \in DOMAIN envs : envs'[e] = envs[e]]_vars
    /\ [][Running("this") =>
            /\ panic' = ""
            /\ BoundThis(envs, environment) # Missing
            /\ res' = Ok(BoundThis(envs, environment))]_vars

\* The innermost binding of super on the chain of environment e: the value
\* the superclass expression of the enclosing class declaration had.
RECURSIVE DeclaredSuper(_, _)
DeclaredSuper(h, e) ==
    IF e = 0 THEN Missing
    ELSE IF Has(h[e].values, "super") THEN h[e].values["super"]
    ELSE DeclaredSuper(h, h[e].enclosing)

\* The classes held by variables of live environments.
Classes ==
    {envs[e].values[x] : <<e, x>> \in
        {p \in (DOMAIN envs) \X {"A", "B", "C"} :
            /\ Has(envs[p[1]].values, p[2])
            /\ envs[p[1]].values[p[2]].t = "class"}}

\* C16: the methods of a class declared with a superclass capture an
\* environment whose super is that superclass, and super.m in such a method
\* finds m from that superclass upwards, whatever the class of this, and
\* binds it to the current this; when no ancestor has m the result is the
\* runtime error "Undefined property".
C16_SuperStartsAtDeclaredSuperclass ==
    /\ [](\A class \in Classes : \A name \in DOMAIN class.methods :
            class.superclass # None =>
                /\ Has(envs[class.methods[name].context].values, "super")
                /\ envs[class.methods[name].context].values["super"] = class.superclass)
    /\ [][Running("super") =>
            LET superclass == DeclaredSuper(envs, environment)
                this == BoundThis(envs, environment)
                method == find_method(superclass, Top(Cur).n.method.lexeme)
            IN /\ panic' = ""
               /\ superclass # Missing /\ this # Missing
               /\ IF method = Missing
                  THEN res' = RuntimeError("Undefined property")
                  ELSE /\ res'.s = "ok"
                       /\ res'.v.t = "fun"
                       /\ res'.v.declaration = method.declaration
                       /\ envs'[res'.v.context].enclosing = method.context
                       /\ envs'[res'.v.context].values["this"] = this]_vars

\* C17: an instance is one cell however many references to it exist: only
\* a class call makes a cell; a Set through a reference writes the field of
\* the cell the reference names and no other cell; a Get through a
\* reference reads the field of the cell the reference names. So a value
\* written through one reference is the value read through every other.
C17_InstancesAreShared ==
    /\ [][Len(instances') # Len(instances) =>
            /\ Running("LoxClass_call")
            /\ instances' = Append(instances, LoxInstance(Top(Cur).n))]_vars
    /\ [][(Running("set") /\ Top(Cur).pc = 2 /\ res.s = "ok") =>
            LET object == Top(Cur).vals[1]
                name == Top(Cur).n.name.lexeme
            IN /\ DOMAIN instances' = DOMAIN instances
               /\ instances'[object.rc].klass = instances[object.rc].klass
               /\ instances'[object.rc].fields = Put(instances[object.rc].fields, name, res.v)
               /\ \A i \in DOMAIN instances : i # object.rc => instances'[i] = instances[i]]_vars
    /\ [][(Running("get") /\ Top(Cur).pc = 1 /\ res.s = "ok" /\ res.v.t = "inst"
             /\ Has(instances[res.v.rc].fields, Top(Cur).n.name.lexeme)) =>
            res' = Ok(instances[res.v.rc].fields[Top(Cur).n.name.lexeme])]_vars
    /\ [][~(Running("set") /\ Top(Cur).pc = 2) =>
            \A i \in DOMAIN instances : instances'[i] = instances[i]]_vars

\* print a.x on line 12 has read 3, the value written through h.f on line
\* 11, after 1 was written through b and 2 through the parameter o.
C17_Witness ==
    /\ event.k = "get"
    /\ event.frame.n = Get(V("a", 12, 1), Ident("x", 12, 2))
    /\ event.res = Ok(Number(3))
    /\ output = <<Number(1), Number(2)>>

\* What the scanner, the parser and the resolver make of the source text
\* of the run activation f: TRUE when one of them reports a static error.
StaticError(f) ==
    \/ f.vals[1] # "none"
    \/ resolve_statements(f.n, Resolver_new(EmptyMap)).had_error

RECURSIVE DirectReturns(_)
DirectReturns(stmt) ==
    CASE stmt.k = "return" -> {stmt}
      [] stmt.k = "block" ->
            UNION {DirectReturns(stmt.statements[i]) : i \in DOMAIN stmt.statements}
      [] stmt.k = "if" ->
            DirectReturns(stmt.then_branch)
                \cup (IF stmt.else_branch = None THEN {}
                      ELSE DirectReturns(stmt.else_branch))
      [] stmt.k = "while" -> DirectReturns(stmt.body)
      [] OTHER -> {}

\* The return statements directly in the body of a method named init of a
\* class declared at the top level of stmts.
InitializerReturns(stmts) ==
    UNION {UNION {DirectReturns(Block(stmts[i].methods[j].closure.body)) :
                    j \in {m \in DOMAIN stmts[i].methods :
                             stmts[i].methods[m].name.lexeme = "init"}} :
             i \in {c \in DOMAIN stmts : stmts[c].k = "class"}}

\* C20: of the return statements directly in an initializer, the resolver
\* reports "Can't return a value from an initializer." for those written
\* with a value expression, which makes run return 65, and for no bare one.
C20_ValueReturnInInitializer ==
    (event.k = "run" /\ event.frame.vals = <<"none">>) =>
        LET stmts == event.frame.n
            rs == resolve_statements(stmts, Resolver_new(EmptyMap))
            reported == {rs.errors[i] : i \in DOMAIN rs.errors}
        IN \A r \in InitializerReturns(stmts) :
              /\ r.written # None =>
                    /\ exit_code = 65
                    /\ [line |-> r.keyword.line,
                        message |-> "Can't return a value from an initializer."]
                          \in reported
              /\ r.written = None =>
                    [line |-> r.keyword.line,
                     message |-> "Can't return a value from an initializer."]
                          \notin reported

(***************************************************************************)
(* The parser (parser.rs) on token sequences of the token types While, For, *)
(* LeftParen, RightParen, LeftBrace, RightBrace, Break, Semicolon, Print,   *)
(* True and Eof.  A parse function takes the parser and returns it as the   *)
(* function leaves it; the arms for token types outside this alphabet are   *)
(* left out.                                                                *)
(***************************************************************************)
peek_token_type(p) == p.tokens[p.pos]

is_at_end(p) == peek_token_type(p) = "Eof"

check(p, token_type) == ~is_at_end(p) /\ peek_token_type(p) = token_type

advance(p) == IF is_at_end(p) THEN p ELSE [p EXCEPT !.pos = @ + 1]

\* Parser::parse_error; at is the position of the token the parser is at.
parse_error(p, message) ==
    [p EXCEPT !.had_error = TRUE,
              !.reports = Append(@, [at |-> p.pos, message |-> message])]

consume(p, token_type, message) ==
    IF check(p, token_type) THEN [advance(p) EXCEPT !.ok = TRUE]
    ELSE [parse_error(p, message) EXCEPT !.ok = FALSE]

\* The one element of a set.  Only({e(q) : q \in {x}}) is e(x) with x
\* computed once, however often e uses it.
Only(S) == CHOOSE x \in S : TRUE

\* A synchronize that leaves the parser at the token the error was met at.
synchronize_stays(p) == p

\* Parser::synchronize
RECURSIVE synchronize(_)
synchronize(p) ==
    IF is_at_end(p) THEN p
    ELSE Only({IF peek_token_type(p) = "Semicolon" THEN q
               ELSE IF peek_token_type(q) \in {"For", "While", "Print"} THEN q
               ELSE synchronize(q) : q \in {advance(p)}})

\* `?` after a parse function: next goes on from q when q is Ok.
Try(q, next(_)) == IF q.ok THEN next(q) ELSE q

RECURSIVE expression(_), parse_call(_), finish_call(_), primary(_)
\* Parser::primary
primary(p) ==
    IF check(p, "True") THEN [advance(p) EXCEPT !.ok = TRUE]
    ELSE IF check(p, "LeftParen")
    THEN Only({Try(q, LAMBDA r : consume(r, "RightParen", "Expect ')' after expression")) :
                 q \in {expression(advance(p))}})
    ELSE [parse_error(p, "Failed to match a valid expression.") EXCEPT !.ok = FALSE]

\* Parser::finish_call
finish_call(p) ==
    IF check(p, "RightParen")
    THEN consume(p, "RightParen", "Expect ')' after arguments.")
    ELSE Only({Try(q, LAMBDA r : consume(r, "RightParen", "Expect ')' after arguments.")) :
                 q \in {expression(p)}})

\* The loop of Parser::call after the primary.
parse_call(p) ==
    IF peek_token_type(p) = "LeftParen"
    THEN Only({Try(q, parse_call) : q \in {finish_call(advance(p))}})
    ELSE [p EXCEPT !.ok = TRUE]

\* Parser::expression, down to Parser::call: the levels between match
\* operator tokens only.
expression(p) == Only({Try(q, parse_call) : q \in {primary(p)}})

\* Parser::print_statement
print_statement(p) ==
    Only({Try(q, LAMBDA r : consume(r, "Semicolon", "Expect ';' after value.")) :
            q \in {expression(p)}})

\* Parser::expression_statement
expression_statement(p) ==
    Only({Try(q, LAMBDA r : consume(r, "Semicolon", "Expect ';' after expression.")) :
            q \in {expression(p)}})

\* Parser::break_statement, which leaves a record of the statement; p is at
\* the semicolon.
break_statement(p) ==
    LET q == consume(p, "Semicolon", "Expect ';' after 'break' statement.")
        message == "A 'break;' cannot appear outside of any enclosing loop."
        seen == [at |-> p.pos, depth |-> p.depth]
    IN IF ~q.ok THEN q
       ELSE IF q.loop_level = 0
       THEN [parse_error(p, message) EXCEPT !.pos = q.pos, !.breaks = Append(@, seen)]
       ELSE [q EXCEPT !.breaks = Append(@, seen)]

RECURSIVE statement(_), declaration(_), block(_)
\* The part of while_statement and of for_statement from
\* `self.loop_level += 1` on; a is the parser after the loop's header.
loop_body(a) ==
    Only({IF q.ok THEN [q EXCEPT !.depth = a.depth, !.loop_level = @ - 1]
          ELSE [q EXCEPT !.depth = a.depth] :
            q \in {statement([a EXCEPT !.loop_level = @ + 1, !.depth = @ + 1])}})

\* Parser::while_statement
while_statement(p) ==
    Only({Try(a, LAMBDA b :
            Only({Try(c, LAMBDA d :
                    Only({Try(e, loop_body) :
                            e \in {consume(d, "RightParen", "Expect ')' after condition.")}})) :
                    c \in {expression(b)}})) :
            a \in {consume(p, "LeftParen", "Expect '(' after 'while'.")}})

\* for_statement from the condition on; b is the parser after the
\* initializer clause.
for_clauses(b) ==
    Only({Try(c, LAMBDA d :
            Only({Try(e, LAMBDA g :
                    Only({Try(h, LAMBDA i :
                            Only({Try(j, loop_body) :
                                    j \in {consume(i, "RightParen",
                                                   "Expect ')' after for clauses.")}})) :
                            h \in {IF check(g, "RightParen") THEN g ELSE expression(g)}})) :
                    e \in {consume(d, "Semicolon", "Expect ';' after loop condition.")}})) :
            c \in {IF check(b, "Semicolon") THEN b ELSE expression(b)}})

\* Parser::for_statement
for_statement(p) ==
    Only({Try(a, LAMBDA b :
            Only({Try(c, for_clauses) :
                    c \in {IF check(b, "Semicolon") THEN advance(b)
                           ELSE expression_statement(b)}})) :
            a \in {consume(p, "LeftParen", "Expect '(' after 'for'.")}})

\* Parser::block.  A turn of its loop that left the parser where it was
\* would be followed by the same turn without end: stalled records it.
block(p) ==
    IF ~check(p, "RightBrace") /\ ~is_at_end(p)
    THEN Only({IF q.pos = p.pos THEN [q EXCEPT !.stalled = TRUE, !.ok = FALSE]
               ELSE block(q) : q \in {declaration(p)}})
    ELSE consume(p, "RightBrace", "Expect '}' after block.")

\* Parser::statement
statement(p) ==
    CASE check(p, "Print") -> print_statement(advance(p))
      [] check(p, "LeftBrace") -> block(advance(p))
      [] check(p, "While") -> while_statement(advance(p))
      [] check(p, "For") -> for_statement(advance(p))
      [] check(p, "Break") -> break_statement(advance(p))
      [] OTHER -> expression_statement(p)

\* Parser::declaration; began is where the declaration started, failed
\* where the error left the parser, resumed where synchronize left it.
declaration(p) ==
    Only({IF q.ok THEN q
          ELSE Only({[s EXCEPT !.ok = TRUE,
                               !.syncs = Append(@, [began |-> p.pos, failed |-> q.pos,
                                                    resumed |-> s.pos])] :
                       s \in {synchronize([q EXCEPT !.had_error = TRUE])}}) :
            q \in {statement(p)}})

\* One turn of the loop of Parser::parse.
ParseDeclaration ==
    /\ parser.result = "none"
    /\ ~is_at_end(parser)
    /\ parser' = declaration(parser)
    /\ UNCHANGED <<session, line_no, statements, envs, instances, environment,
                   locals, active_break, next_rc, stack, res, output, exit_code,
                   panic, recorded, event, prompt_loop, scanner, resolver>>

\* The end of Parser::parse.
ParseReturn ==
    /\ parser.result = "none"
    /\ is_at_end(parser)
    /\ parser' = [parser EXCEPT !.result = IF parser.had_error THEN "Err" ELSE "Ok"]
    /\ UNCHANGED <<session, line_no, statements, envs, instances, environment,
                   locals, active_break, next_rc, stack, res, output, exit_code,
                   panic, recorded, event, prompt_loop, scanner, resolver>>

\* The most pieces of source text a token sequence is put together from.
MaxPieces == 3

\* break;   while (true)   for (;;)   print true;   print ;   {   }   true();
\* and a semicolon by itself
Pieces ==
    {<<"Break", "Semicolon">>,
     <<"Semicolon">>,
     <<"While", "LeftParen", "True", "RightParen">>,
     <<"For", "LeftParen", "Semicolon", "Semicolon", "RightParen">>,
     <<"Print", "True", "Semicolon">>,
     <<"Print", "Semicolon">>,
     <<"LeftBrace">>,
     <<"RightBrace">>,
     <<"True", "LeftParen", "RightParen", "Semicolon">>}

RECURSIVE Texts(_)
Texts(n) ==
    IF n = 0 THEN {<<>>}
    ELSE Texts(n - 1) \cup {t \o piece : t \in Texts(n - 1), piece \in Pieces}

\* What Scanner::scan_tokens delivers: the tokens of the text and Eof.
TokenSequences == {Append(t, "Eof") : t \in Texts(MaxPieces)}

ParserInit ==
    /\ session = File(<<>>)
    /\ parser \in {Parser_new(tokens) : tokens \in TokenSequences}
    /\ scanner = Scanner_new(<<>>)
    /\ prompt_loop = "reading"
    /\ Interpreter_new

ParserNext == ParseDeclaration \/ ParseReturn

ParserSpec == ParserInit /\ [][ParserNext]_vars

\* C19: every break statement parsed outside all loop bodies is reported
\* with the diagnostic, whatever was parsed before it, and between the
\* top-level declarations the loop-depth counter is zero.
C19_BreakOutsideLoopReported ==
    /\ \A i \in DOMAIN parser.breaks :
          parser.breaks[i].depth = 0 =>
             \E j \in DOMAIN parser.reports :
                parser.reports[j] =
                   [at |-> parser.breaks[i].at,
                    message |-> "A 'break;' cannot appear outside of any enclosing loop."]
    /\ parser.depth = 0 /\ parser.loop_level = 0

\* C21: every turn of the prompt loop runs its line on the interpreter as
\* the turn before left it, and the turn whose read returns zero bytes, the
\* end of the input, leaves the loop without running anything.
C21_PromptEndsAtEndOfInput ==
    /\ [][(session.mode = "prompt" /\ stack = <<>> /\ stack' # <<>>) =>
            /\ envs' = envs /\ instances' = instances /\ locals' = locals
            /\ environment' = environment /\ next_rc' = next_rc
            /\ output' = output]_vars
    /\ [][(session.mode = "prompt" /\ prompt_loop = "reading" /\ stack = <<>>
             /\ read_line = 0) =>
            prompt_loop' = "returned" /\ stack' = <<>>]_vars

(***************************************************************************)
(* The scanner (scanner.rs).  A source text is a sequence of characters,   *)
(* each a one-character string; start and current are byte offsets and a   *)
(* character takes len_utf8 bytes.                                         *)
(***************************************************************************)
\* What Scanner::advance returns when char_iter has no character left.
NUL == "\\0"

\* char::len_utf8
len_utf8(ch) == IF ch = "é" THEN 2 ELSE IF ch = "€" THEN 3 ELSE 1

\* char::is_ascii_digit, char::is_alphabetic, char::is_alphanumeric
is_ascii_digit(ch) == ch \in {"1", "2"}

is_alphabetic(ch) == ch \in {"a", "o", "r", "é"}

is_alphanumeric(ch) == is_alphabetic(ch) \/ is_ascii_digit(ch)

\* str::len of the first n characters of a text: the byte offset after them.
RECURSIVE byte_len(_, _)
byte_len(source, n) ==
    IF n = 0 THEN 0 ELSE byte_len(source, n - 1) + len_utf8(source[n])

\* str::is_char_boundary
is_char_boundary(source, b) ==
    \E n \in 0..Len(source) : byte_len(source, n) = b

\* The number of characters before byte offset b, a char boundary.
chars_before(source, b) ==
    CHOOSE n \in 0..Len(source) : byte_len(source, n) = b

\* &source[a..b]: a panic unless a <= b and both are char boundaries.
slice_ok(source, a, b) ==
    a <= b /\ is_char_boundary(source, a) /\ is_char_boundary(source, b)

slice(source, a, b) ==
    SubSeq(source, chars_before(source, a) + 1, chars_before(source, b))

\* Scanner::is_at_end
Scanner_is_at_end(sc) == sc.current >= byte_len(sc.source, Len(sc.source))

\* char_iter.peek(): None is the empty string.
peek(sc) == IF sc.it <= Len(sc.source) THEN sc.source[sc.it] ELSE ""

\* Scanner::advance counting one byte for every character.
advance_one_byte(sc) ==
    IF sc.it <= Len(sc.source)
    THEN [sc EXCEPT !.current = @ + 1, !.it = @ + 1]
    ELSE sc

\* Scanner::advance: the scanner after it; advanced_char is what it returns.
Scanner_advance(sc) ==
    IF sc.it <= Len(sc.source)
    THEN [sc EXCEPT !.current = @ + len_utf8(sc.source[sc.it]), !.it = @ + 1]
    ELSE sc

advanced_char(sc) == IF sc.it <= Len(sc.source) THEN sc.source[sc.it] ELSE NUL

\* Scanner::error
Scanner_error(sc, line, message) ==
    [sc EXCEPT !.had_error = TRUE,
               !.reports = Append(@, [at |-> sc.it - 1, line |-> line,
                                      message |-> message])]

\* A panic of the scan: nothing runs after it.
Scanner_panic(sc, message) == [sc EXCEPT !.panic = message]

\* Scanner::add_token
add_token(sc, token_type, literal) ==
    IF slice_ok(sc.source, sc.start, sc.current)
    THEN [sc EXCEPT !.tokens =
             Append(@, [token_type |-> token_type,
                        lexeme |-> slice(sc.source, sc.start, sc.current),
                        literal |-> literal, line |-> sc.line])]
    ELSE Scanner_panic(sc, "byte index is not a char boundary")

\* Scanner::match_char: add_token of one type when the next character is
\* the expected one, which is taken, and of the other type when not.
match_char(sc, expected, matched, otherwise) ==
    IF peek(sc) = expected
    THEN add_token(Scanner_advance(sc), matched, None)
    ELSE add_token(sc, otherwise, None)

\* Scanner::string
RECURSIVE string_chars(_)
string_chars(sc) ==
    IF peek(sc) = "" \/ peek(sc) = "\"" THEN sc
    ELSE Only({string_chars(Scanner_advance(q)) :
               q \in {[sc EXCEPT !.line = IF peek(sc) = "\n" THEN @ + 1 ELSE @]}})

string(sc0) ==
    Only({IF Scanner_is_at_end(sc) THEN Scanner_error(sc, sc.line, "Unterminated string.")
          ELSE Only({IF slice_ok(q.source, q.start + 1, q.current - 1)
                     THEN add_token(q, "String",
                                    [t |-> "String",
                                     v |-> slice(q.source, q.start + 1, q.current - 1)])
                     ELSE Scanner_panic(q, "byte index is not a char boundary") :
                     q \in {Scanner_advance(sc)}}) :
          sc \in {string_chars(sc0)}})

\* str::parse::<f64> of a lexeme: Ok for digits with at most one point that
\* has a digit on both sides.
parse_ok(text) ==
    /\ Len(text) > 0
    /\ \A i \in DOMAIN text :
          \/ is_ascii_digit(text[i])
          \/ /\ text[i] = "."
             /\ 1 < i /\ i < Len(text)
             /\ \A j \in DOMAIN text : text[j] = "." => j = i

\* Scanner::number
RECURSIVE digits(_)
digits(sc) ==
    IF is_ascii_digit(peek(sc))
    THEN Only({digits(q) : q \in {Scanner_advance(sc)}})
    ELSE sc

number_token(sc) ==
    IF ~slice_ok(sc.source, sc.start, sc.current)
    THEN Scanner_panic(sc, "byte index is not a char boundary")
    ELSE IF ~parse_ok(slice(sc.source, sc.start, sc.current))
    THEN Scanner_panic(sc, "Failed to parse number literal")
    ELSE add_token(sc, "Number",
                   [t |-> "Number", v |-> slice(sc.source, sc.start, sc.current)])

number(sc0) ==
    Only({IF peek(sc) # "." THEN number_token(sc)
          ELSE IF ~slice_ok(sc.source, sc.current + 1,
                            byte_len(sc.source, Len(sc.source)))
          THEN Scanner_panic(sc, "byte index is not a char boundary")
          ELSE IF /\ sc.it + 1 <= Len(sc.source)
                  /\ is_ascii_digit(sc.source[chars_before(sc.source, sc.current + 1) + 1])
          THEN Only({number_token(q) : q \in {digits(Scanner_advance(sc))}})
          ELSE number_token(sc) :
          sc \in {digits(sc0)}})

\* Scanner::new, the keywords table.
keywords ==
    {<<<<"a", "n", "d">>, "And">>, <<<<"c", "l", "a", "s", "s">>, "Class">>,
     <<<<"e", "l", "s", "e">>, "Else">>, <<<<"f", "a", "l", "s", "e">>, "False">>,
     <<<<"f", "o", "r">>, "For">>, <<<<"f", "u", "n">>, "Fun">>,
     <<<<"i", "f">>, "If">>, <<<<"n", "i", "l">>, "Nil">>, <<<<"o", "r">>, "Or">>,
     <<<<"p", "r", "i", "n", "t">>, "Print">>,
     <<<<"r", "e", "t", "u", "r", "n">>, "Return">>,
     <<<<"s", "u", "p", "e", "r">>, "Super">>, <<<<"t", "h", "i", "s">>, "This">>,
     <<<<"t", "r", "u", "e">>, "True">>, <<<<"v", "a", "r">>, "Var">>,
     <<<<"w", "h", "i", "l", "e">>, "While">>,
     <<<<"b", "r", "e", "a", "k">>, "Break">>}

\* Scanner::identifier
RECURSIVE identifier_chars(_)
identifier_chars(sc) ==
    IF is_alphanumeric(peek(sc)) \/ peek(sc) = "_"
    THEN Only({identifier_chars(q) : q \in {Scanner_advance(sc)}})
    ELSE sc

identifier_type(text) ==
    IF \E kw \in keywords : kw[1] = text
    THEN (CHOOSE kw \in keywords : kw[1] = text)[2]
    ELSE "Identifier"

identifier(sc0) ==
    Only({IF ~slice_ok(sc.source, sc.start, sc.current)
          THEN Scanner_panic(sc, "byte index is not a char boundary")
          ELSE Only({add_token(sc, token_type,
                               CASE token_type = "False" -> [t |-> "Boolean", v |-> FALSE]
                                 [] token_type = "True" -> [t |-> "Boolean", v |-> TRUE]
                                 [] token_type = "Nil" -> [t |-> "Nil"]
                                 [] OTHER -> None) :
                     token_type \in {identifier_type(slice(sc.source, sc.start, sc.current))}}) :
          sc \in {identifier_chars(sc0)}})

\* Scanner::comments
RECURSIVE comments(_)
comments(sc) ==
    IF peek(sc) = "" \/ peek(sc) = "\n" THEN sc
    ELSE Only({comments(q) : q \in {Scanner_advance(sc)}})

\* Scanner::block_comments: one turn of its loop with current_char taken
\* and sc after it, and the function.
RECURSIVE block_comment_chars(_, _, _)
block_comment_chars(sc, current_char, nested_blocks) ==
    IF current_char = NUL THEN sc
    ELSE IF current_char = "*" /\ peek(sc) = "/"
    THEN IF nested_blocks = 0 THEN Scanner_advance(sc)
         ELSE Only({block_comment_chars(Scanner_advance(q), advanced_char(q),
                                        nested_blocks - 1) :
                    q \in {Scanner_advance(sc)}})
    ELSE IF current_char = "/" /\ peek(sc) = "*"
    THEN Only({block_comment_chars(Scanner_advance(q), advanced_char(q),
                                   nested_blocks + 1) :
               q \in {Scanner_advance(sc)}})
    ELSE Only({block_comment_chars(Scanner_advance(q), advanced_char(q),
                                   nested_blocks) :
               q \in {[sc EXCEPT !.line = IF current_char = "\n" THEN @ + 1 ELSE @]}})

block_comments(sc) == block_comment_chars(Scanner_advance(sc), advanced_char(sc), 0)

\* Scanner::scan_token
scan_token(sc0) ==
    Only({CASE c = "(" -> add_token(sc, "LeftParen", None)
            [] c = ")" -> add_token(sc, "RightParen", None)
            [] c = "{" -> add_token(sc, "LeftBrace", None)
            [] c = "}" -> add_token(sc, "RightBrace", None)
            [] c = "," -> add_token(sc, "Comma", None)
            [] c = "." -> add_token(sc, "Dot", None)
            [] c = "-" -> add_token(sc, "Minus", None)
            [] c = "+" -> add_token(sc, "Plus", None)
            [] c = ";" -> add_token(sc, "Semicolon", None)
            [] c = ":" -> add_token(sc, "Colon", None)
            [] c = "?" -> add_token(sc, "QuestionMark", None)
            [] c = "*" -> add_token(sc, "Star", None)
            [] c = "!" -> match_char(sc, "=", "BangEqual", "Bang")
            [] c = "=" -> match_char(sc, "=", "EqualEqual", "Equal")
            [] c = "<" -> match_char(sc, "=", "LessEqual", "Less")
            [] c = ">" -> match_char(sc, "=", "GreaterEqual", "Greater")
            [] c = "/" -> IF peek(sc) = "/" THEN comments(Scanner_advance(sc))
                          ELSE IF peek(sc) = "*" THEN block_comments(Scanner_advance(sc))
                          ELSE add_token(sc, "Slash", None)
            [] c \in {" ", "\r", "\t"} -> sc
            [] c = "\n" -> [sc EXCEPT !.line = @ + 1]
            [] c = "\"" -> string(sc)
            [] is_ascii_digit(c) -> number(sc)
            [] is_alphabetic(c) \/ c = "_" -> identifier(sc)
            [] OTHER -> Scanner_error(sc, sc.line, "Unexpected character.") :
          sc \in {Scanner_advance(sc0)}, c \in {advanced_char(sc0)}})

\* Scanner::scan_tokens, one turn of its loop and its end.
scan_turn(sc) == scan_token([sc EXCEPT !.start = sc.current])

scan_end(sc) ==
    [sc EXCEPT !.tokens = Append(@, [token_type |-> "Eof", lexeme |-> <<>>,
                                     literal |-> None, line |-> sc.line]),
               !.returned = TRUE]

RECURSIVE scan_tokens(_)
scan_tokens(sc) ==
    IF sc.panic # "" THEN sc
    ELSE IF Scanner_is_at_end(sc) THEN scan_end(sc)
    ELSE Only({scan_tokens(q) : q \in {scan_turn(sc)}})

ScanToken ==
    /\ ~scanner.returned /\ scanner.panic = ""
    /\ ~Scanner_is_at_end(scanner)
    /\ scanner' = scan_turn(scanner)
    /\ UNCHANGED <<session, line_no, statements, envs, instances, environment,
                   locals, active_break, next_rc, stack, res, output, exit_code,
                   panic, recorded, event, parser, prompt_loop, resolver>>

ScanReturn ==
    /\ ~scanner.returned /\ scanner.panic = ""
    /\ Scanner_is_at_end(scanner)
    /\ scanner' = scan_end(scanner)
    /\ UNCHANGED <<session, line_no, statements, envs, instances, environment,
                   locals, active_break, next_rc, stack, res, output, exit_code,
                   panic, recorded, event, parser, prompt_loop, resolver>>

\* The most chunks of characters a source text is put together from.
MaxChunks == 3

Chunks ==
    {<<"(">>, <<"!", "=">>, <<"=">>, <<"/", "/", "a">>, <<"\n">>, <<"/", "*">>,
     <<"*", "/">>, <<"\"">>, <<"1">>, <<"2", ".">>, <<"o", "r">>, <<"é">>,
     <<"@">>, <<"€">>, <<" ">>, <<NUL>>}

RECURSIVE Sources(_)
Sources(n) ==
    IF n = 0 THEN {<<>>}
    ELSE Sources(n - 1) \cup {t \o chunk : t \in Sources(n - 1), chunk \in Chunks}

ScannerInit ==
    /\ session = File(<<>>)
    /\ parser = Parser_new(<<"Eof">>)
    /\ scanner \in {Scanner_new(source) : source \in Sources(MaxChunks)}
    /\ prompt_loop = "reading"
    /\ Interpreter_new

ScannerNext == ScanToken \/ ScanReturn

ScannerSpec == ScannerInit /\ [][ScannerNext]_vars

\* The source with the character at one place replaced by a blank.
Blanked(source, at) == [source EXCEPT ![at] = " "]

\* C22: no scan panics; the token list scan_tokens delivers ends with an Eof
\* token of empty lexeme and holds no other Eof token, with or without
\* errors flagged; and for every character reported as unexpected the list
\* is the one the scanner delivers for the text with a blank in its place.
C22_ScanDeliversAllTokens ==
    /\ scanner.panic = ""
    /\ \A i \in DOMAIN scanner.tokens :
          scanner.tokens[i].token_type = "Eof" =>
             /\ scanner.returned /\ i = Len(scanner.tokens)
             /\ scanner.tokens[i].lexeme = <<>>
    /\ scanner.returned =>
          /\ scanner.tokens # <<>>
          /\ scanner.tokens[Len(scanner.tokens)].token_type = "Eof"
          /\ scanner.had_error = (scanner.reports # <<>>)
          /\ \A j \in DOMAIN scanner.reports :
                scanner.reports[j].message = "Unexpected character." =>
                   scan_tokens(Scanner_new(Blanked(scanner.source,
                                                   scanner.reports[j].at))).tokens
                      = scanner.tokens

\* A scan that returned with a token before and a token after a character
\* of three bytes it reported, and one with an unterminated string.
C22_Witness ==
    /\ scanner.returned
    /\ Len(scanner.tokens) = 3
    /\ \E j \in DOMAIN scanner.reports :
          /\ scanner.reports[j].message = "Unexpected character."
          /\ scanner.reports[j].at = 2
          /\ scanner.source[2] = "€"

\* The initializer a call of the class runs: init of the class or of its
\* nearest ancestor that declares one, None when none does.
RECURSIVE InitOf(_)
InitOf(class) ==
    IF "init" \in DOMAIN class.methods THEN class.methods["init"]
    ELSE IF class.superclass = None THEN None
    ELSE InitOf(class.superclass)

InitArity(class) ==
    IF InitOf(class) = None THEN 0 ELSE Len(InitOf(class).declaration.params)

\* The call expression on top of the stack has its callee, a class, and all
\* its arguments evaluated: Held is the callee and the arguments.
Held == Append(Top(Cur).vals, res.v)

ClassCallReady ==
    /\ panic = "" /\ stack # <<>>
    /\ Top(Cur).k = "call" /\ Top(Cur).pc = 1 /\ res.s = "ok"
    /\ Len(Held) = Len(Top(Cur).n.arguments) + 1
    /\ Held[1].t = "class"

\* C23: a class called with a number of arguments other than the parameter
\* count of the init of the class or its nearest ancestor that has one (0
\* when none has) gives the runtime error with the two numbers and runs
\* nothing; called with that number it makes one fresh instance and calls
\* that initializer, bound to the instance, once with the arguments.
C23_ClassArity ==
    [][/\ ClassCallReady =>
            IF Len(Held) - 1 # InitArity(Held[1])
            THEN /\ res' = ArityError(InitArity(Held[1]), Len(Held) - 1)
                 /\ stack' = SubSeq(stack, 1, Len(stack) - 1)
                 /\ envs' = envs /\ instances' = instances /\ output' = output
            ELSE /\ Len(stack') = Len(stack) + 1
                 /\ stack'[Len(stack')].k = "LoxClass_call"
                 /\ stack'[Len(stack')].n = Held[1]
                 /\ stack'[Len(stack')].vals = Tail(Held)
                 /\ stack'[Len(stack')].pc = 0
       /\ (panic = "" /\ stack # <<>> /\ Top(Cur).k = "LoxClass_call") =>
            IF Top(Cur).pc # 0 \/ InitOf(Top(Cur).n) = None
            THEN /\ stack' = SubSeq(stack, 1, Len(stack) - 1)
                 /\ Top(Cur).pc = 0 =>
                       /\ instances' = Append(instances, LoxInstance(Top(Cur).n))
                       /\ res' = Ok(Instance(Len(instances')))
                 /\ (Top(Cur).pc # 0 /\ res.s = "ok") =>
                       /\ instances' = instances
                       /\ res' = Ok(Top(Cur).vals[1])
                       /\ instances[res'.v.rc].klass = Top(Cur).n
            ELSE /\ instances' = Append(instances, LoxInstance(Top(Cur).n))
                 /\ Len(stack') = Len(stack) + 1
                 /\ stack'[Len(stack)].pc = 1
                 /\ stack'[Len(stack)].vals = <<Instance(Len(instances'))>>
                 /\ stack'[Len(stack')].k = "LoxFunction_call"
                 /\ stack'[Len(stack')].n.declaration = InitOf(Top(Cur).n).declaration
                 /\ stack'[Len(stack')].n.is_initializer
                 /\ stack'[Len(stack')].vals = Top(Cur).vals
                 /\ envs'[stack'[Len(stack')].n.context].values["this"]
                       = Instance(Len(instances'))]_vars

\* B() has failed: B inherits init(n) from A, and nothing was printed.
C23_Witness ==
    /\ exit_code = 70
    /\ statements \in {ArityProgram(call) : call \in ArityCalls}
    /\ statements[5].expression.callee.name.lexeme = "B"
    /\ statements[5].expression.arguments = <<>>
    /\ output = <<>>
    /\ Len(instances) = 0

\* C24: the body of a user function starts with active_break false, and
\* when a call of a user function returns no break is pending: a break in
\* the function's body has ended a loop of that body and nothing else.
C24_NoBreakAcrossCalls ==
    /\ \A i \in DOMAIN stack :
          (/\ i > 1
           /\ stack[i].k = "execute_block" /\ stack[i].pc = 0
           /\ stack[i - 1].k = "LoxFunction_call") => ~active_break
    /\ (event.k = "LoxFunction_call" /\ event.res.s = "ok") => ~active_break

\* C25: a for statement, as the tree the parser builds for it, and the loop
\* written by hand from the same clauses and body have the same effects:
\* each runs to the end and prints what the loop prints, with no increment
\* after a break in the body.
C25_ForAsHandWritten ==
    \A l \in ForLoops :
       (/\ statements \in {ForProgram(l), HandProgram(l)}
        /\ panic # "" \/ (stack = <<>> /\ exit_code # -1)) =>
          /\ panic = ""
          /\ exit_code = 0
          /\ output = l.prints

(***************************************************************************)
(* Environment::assign called on chains of environments of any shape:      *)
(* envs is the heap, environment the cell the call is made on, res what    *)
(* the call returned and event what was called.                            *)
(***************************************************************************)
\* The longest chain of environments.
MaxChain == 3

ChainNames == {"a", "b"}

ChainValues == {Number(2)}

\* The maps an environment may hold.
ChainMaps ==
    UNION {[names -> {Number(1)}] : names \in SUBSET ChainNames}

\* The heaps that are one chain: cell 1 has no enclosing environment and
\* cell i + 1 is enclosed by cell i.
Chains ==
    UNION {{[i \in 1..n |-> [values |-> maps[i], enclosing |-> i - 1]] :
               maps \in [1..n -> ChainMaps]} : n \in 1..MaxChain}

Rest ==
    <<session, line_no, statements, instances, locals, active_break, next_rc,
      stack, output, exit_code, panic, recorded, parser, prompt_loop, scanner,
      resolver>>

\* environment.borrow_mut().assign(name, value)
EnvAssign ==
    \E e \in DOMAIN envs, lexeme \in ChainNames, value \in ChainValues :
        \E a \in {assign(envs, e, Ident(lexeme, 1, 1), value)} :
            /\ environment' = e
            /\ envs' = a.h
            /\ res' = IF a.ok THEN Ok(value) ELSE RuntimeError("Undefined variable")
            /\ event' = [k |-> "assign", name |-> lexeme, value |-> value]
            /\ UNCHANGED Rest

EnvInit ==
    /\ session = File(<<>>)
    /\ parser = Parser_new(<<"Eof">>)
    /\ scanner = Scanner_new(<<>>)
    /\ prompt_loop = "reading"
    /\ line_no = 0 /\ statements = <<>>
    /\ envs \in Chains
    /\ environment = 1
    /\ instances = <<>> /\ locals = EmptyMap /\ active_break = FALSE
    /\ next_rc = 0 /\ stack = <<>> /\ res = NoRes /\ output = <<>>
    /\ exit_code = -1 /\ panic = "" /\ recorded = EmptyMap /\ event = NoEvent
    /\ resolver = None

EnvNext == EnvAssign

EnvSpec == EnvInit /\ [][EnvNext]_vars

\* The cells of the chain that starts at cell e, nearest first.
RECURSIVE ChainOf(_, _)
ChainOf(h, e) == IF e = 0 THEN <<>> ELSE <<e>> \o ChainOf(h, h[e].enclosing)

\* The places in the chain of the cells that bind the name.
Binders(h, e, name) ==
    {i \in DOMAIN ChainOf(h, e) : name \in DOMAIN h[ChainOf(h, e)[i]].values}

\* C26: a call of assign on an environment writes the value into the
\* nearest cell of its chain that binds the name, changes nothing else,
\* creates no binding and returns the value; when no cell of the chain
\* binds the name it returns the error and the heap is what it was.
C26_AssignWritesNearest ==
    [][event'.k = "assign" =>
          LET name == event'.name
              chain == ChainOf(envs, environment')
              binders == Binders(envs, environment', name)
          IN /\ \A e \in DOMAIN envs :
                   /\ envs'[e].enclosing = envs[e].enclosing
                   /\ DOMAIN envs'[e].values = DOMAIN envs[e].values
             /\ DOMAIN envs' = DOMAIN envs
             /\ IF binders = {}
                THEN /\ envs' = envs
                     /\ res' = RuntimeError("Undefined variable")
                ELSE LET nearest == chain[CHOOSE i \in binders :
                                             \A j \in binders : i <= j]
                     IN /\ res' = Ok(event'.value)
                        /\ envs'[nearest].values[name] = event'.value
                        /\ \A e \in DOMAIN envs :
                              \A n \in DOMAIN envs[e].values :
                                 (e # nearest \/ n # name) =>
                                    envs'[e].values[n] = envs[e].values[n]]_vars

\* assign has written a binding of an outer cell through two cells that do
\* not bind the name, and has changed the value.
C26_Witness ==
    /\ event.k = "assign" /\ res.s = "ok"
    /\ environment = 3
    /\ event.name \notin DOMAIN envs[3].values
    /\ event.name \notin DOMAIN envs[2].values
    /\ envs[1].values[event.name] = Number(2)

\* C27: == and != on any two values, instances that lead back to
\* themselves through their fields among them, return a boolean: the
\* comparison ends and neither fails nor aborts the process.
C27_EqualityTerminates ==
    [][(/\ panic = "" /\ stack # <<>>
        /\ Top(Cur).k = "binary" /\ Top(Cur).pc = 2 /\ res.s = "ok"
        /\ Top(Cur).n.operator \in {"EqualEqual", "BangEqual"}) =>
           /\ panic' = ""
           /\ res'.s = "ok" /\ res'.v.t = "bool"]_vars

\* C28: active_break is false whenever no while statement is running: in
\* particular when a top-level statement has completed and when interpret
\* has returned; so no block ends with statements it has not run unless a
\* while statement is running around it.
C28_NoBreakPendingOutsideLoops ==
    LET in_loop == \E i \in DOMAIN stack : stack[i].k = "while" IN
    /\ ~in_loop => ~active_break
    /\ (stack # <<>> /\ Top(Cur).k = "interpret" /\ res.s = "ok") => ~active_break
    /\ event.k = "interpret" => ~active_break
    /\ (/\ event.k = "execute_block"
        /\ event.res.s = "ok"
        /\ event.frame.pc <= Len(event.frame.n)) => in_loop

\* C29: when resolve_statements has returned for the statements of a run,
\* the scope stack is empty, current_function and current_class are None,
\* and every begin_scope was matched by one end_scope, with and without
\* static errors.
C29_ResolverRestored ==
    resolver # None =>
       /\ resolver.scopes = <<>>
       /\ resolver.current_function = "None"
       /\ resolver.current_class = "None"
       /\ resolver.begun = resolver.ended
       /\ ~resolver.unmatched

\* The resolver has reported five errors, inside a class, an initializer, a
\* function in a method, a block and at top level, and has closed the six
\* scopes it opened.
C29_Witness ==
    /\ resolver # None
    /\ statements = StaticErrorsProgram
    /\ Len(resolver.errors) = 5
    /\ resolver.begun = 6
    /\ exit_code = 65


\* C30: Parser::parse never takes the Eof token and every turn of its loop
\* and of the loop of block() consumes at least one token, also the turns
\* whose declaration fails at its first token and runs synchronize; so
\* parse returns, at Eof, after at most as many turns as there are tokens
\* before Eof.
C30_ParseConsumes ==
    /\ [](/\ parser.pos \in 1..Len(parser.tokens)
          /\ ~parser.stalled
          /\ \A i \in DOMAIN parser.syncs :
                /\ parser.syncs[i].resumed > parser.syncs[i].began
                /\ parser.syncs[i].failed = parser.syncs[i].began =>
                      parser.tokens[parser.syncs[i].began] # "Eof"
          /\ parser.result # "none" => is_at_end(parser))
    /\ [][(parser.result = "none" /\ ~is_at_end(parser)) =>
            /\ parser'.pos > parser.pos
            /\ parser'.result = "none"]_vars

\* { ; }: inside the block the declaration at the semicolon failed on that
\* token, synchronize took it, and parse returned at Eof.
C30_Witness ==
    /\ parser.tokens = <<"LeftBrace", "Semicolon", "RightBrace", "Eof">>
    /\ parser.result = "Err"
    /\ parser.pos = 4
    /\ parser.syncs = <<[began |-> 2, failed |-> 2, resumed |-> 3]>>

====
